---------------------------- MODULE Spec2Model ----------------------------
(***************************************************************************)
(* Model of the component mounting engine of elysium.js.                   *)
(*                                                                         *)
(* Text is modelled character by character: a string of the program is a   *)
(* sequence of one-character strings, so that an index of the program      *)
(* (RegExp.lastIndex, String.indexOf) is an index of the model and the     *)
(* length of a replacement is the length the program sees.                 *)
(*                                                                         *)
(*   ComponentLoader   src/templates/default/README.md  (lines 22-235)     *)
(*   ComponentManager  src/src/dev-server.ts            (lines 87-227)     *)
(*   dev-server watch  src/src/dev-server.ts            (lines 21-83)      *)
(*   component parser  src/unnamed/part_003             (lines 340-428)    *)
(*   ElysiumRouter     src/unnamed/part_002             (lines 1-96)       *)
(*   ElysiumJS         src/src/index.ts                 (lines 45-431)     *)
(***************************************************************************)
EXTENDS Naturals, Sequences, FiniteSets

VARIABLES
  files,               \* the components directory: file base name -> source
  exportedComponents,  \* ComponentLoader.exportedComponents
  loaderComponents,    \* ComponentLoader.components (raw file contents)
  pc,                  \* where the router / the running mount call stands
  html,                \* argument of the running mount call
  result,              \* local `result` of mount
  lastIndex,           \* componentRegex.lastIndex of the running mount call
  componentStyles,     \* local Map componentStyles, in insertion order
  calls,               \* history: the render invocations of the running mount
  turns,               \* history: parity of the loop turns past MaxRenders calls
  elems,               \* history: the elements the routed page was written from
  round,               \* history: 1 for mount(doc), 2 for mount(mount(doc))
  out1,                \* history: what the first mount returned
  components,          \* ComponentManager.components
  styles,              \* ComponentManager.styles
  events,              \* chokidar events emitted and not yet handled
  trail,               \* history: the edits, events and resolves, in order
  mpc,                 \* where ElysiumJS stands: "init" or "ready"
  served,              \* history: the running html() response of ElysiumJS
  tempFile,            \* temp/<componentName>.js of loadExportedComponent
  moduleCache,         \* the runtime's module map: import URL stamp -> module
  now,                 \* Date.now()
  loads,               \* the concurrent loadExportedComponent calls
  plugins,             \* PluginManager.plugins: name -> {plugin, options}
  hooks,               \* PluginManager.hooks: hook name -> hook functions
  initAt,              \* where the running ElysiumJS.init call stands
  lifecycle,           \* history: the steps of init and the hooks it ran
  registered,          \* history: the latest PluginManager.register call
  state,               \* Store.state
  emitterEvents,       \* EventEmitter.events of the store: event -> listeners
  subs,                \* history: the subscribe and unsubscribe calls, in order
  lastSet              \* history: the latest Store.setState call

loaderVars == <<exportedComponents, loaderComponents, pc, html, result,
                lastIndex, componentStyles, calls, turns, elems, round,
                out1>>
managerVars == <<components, styles, events, trail, mpc>>
raceVars == <<tempFile, moduleCache, now, loads>>
pluginVars == <<plugins, hooks, initAt, lifecycle, registered>>
storeVars == <<state, emitterEvents, subs, lastSet>>
appVars == <<raceVars, pluginVars, storeVars>>
vars == <<files, loaderVars, managerVars, served, appVars>>

---------------------------------------------------------------------------
(* Characters and character classes of the regular expressions.            *)

Upper == {"A","B","C","D","E","F","G","H","I","J","K","L","M",
          "N","O","P","Q","R","S","T","U","V","W","X","Y","Z"}
Lower == {"a","b","c","d","e","f","g","h","i","j","k","l","m",
          "n","o","p","q","r","s","t","u","v","w","x","y","z"}
Digit == {"0","1","2","3","4","5","6","7","8","9"}
\* [a-zA-Z0-9]
Alnum == Upper \cup Lower \cup Digit
\* [a-zA-Z0-9_-]
AttrNameChar == Alnum \cup {"_", "-"}
\* \s
Space == {" ", "\n", "\t"}

UpperSeq == <<"A","B","C","D","E","F","G","H","I","J","K","L","M",
              "N","O","P","Q","R","S","T","U","V","W","X","Y","Z">>
LowerSeq == <<"a","b","c","d","e","f","g","h","i","j","k","l","m",
              "n","o","p","q","r","s","t","u","v","w","x","y","z">>

\* String.prototype.toLowerCase, one character
LowerChar(c) ==
  IF c \in Upper THEN LowerSeq[CHOOSE i \in 1..26 : UpperSeq[i] = c] ELSE c
\* String.prototype.toUpperCase, one character
UpperChar(c) ==
  IF c \in Lower THEN UpperSeq[CHOOSE i \in 1..26 : LowerSeq[i] = c] ELSE c
ToLowerCase(s) == [i \in 1..Len(s) |-> LowerChar(s[i])]
\* name.charAt(0).toUpperCase() + name.slice(1)
Capitalize(s) == [i \in 1..Len(s) |-> IF i = 1 THEN UpperChar(s[i]) ELSE s[i]]

---------------------------------------------------------------------------
(* String primitives.  Positions are 1-based; a JavaScript offset k is     *)
(* the position k + 1.  A value that is used more than once is bound by a  *)
(* bound variable, Pick({ ... : x \in {value} }), so it is computed once.   *)

Pick(S) == CHOOSE x \in S : TRUE

\* s.startsWith(t, i - 1)
StartsWithAt(s, i, t) ==
  /\ i >= 1
  /\ i + Len(t) <= Len(s) + 1
  /\ \A k \in 1..Len(t) : s[i + k - 1] = t[k]

\* s.indexOf(t, from - 1) + 1 : the first position >= from where t occurs,
\* 0 if there is none
IndexOfFrom(s, t, from) ==
  IF \E i \in from..Len(s) : StartsWithAt(s, i, t)
  THEN CHOOSE i \in from..Len(s) :
         /\ StartsWithAt(s, i, t)
         /\ \A j \in from..(i - 1) : ~StartsWithAt(s, j, t)
  ELSE 0
IndexOf(s, t) == IndexOfFrom(s, t, 1)
\* s.includes(t)
Includes(s, t) == \E i \in 1..Len(s) : StartsWithAt(s, i, t)

\* the first position >= from holding a character of class cls, 0 if none
FirstIn(s, cls, from) ==
  IF \E i \in from..Len(s) : s[i] \in cls
  THEN CHOOSE i \in from..Len(s) :
         s[i] \in cls /\ \A j \in from..(i - 1) : s[j] \notin cls
  ELSE 0
\* the first position >= from holding a character outside cls, Len(s) + 1
\* if there is none
FirstNotIn(s, cls, from) ==
  IF \E i \in from..Len(s) : s[i] \notin cls
  THEN CHOOSE i \in from..Len(s) :
         s[i] \notin cls /\ \A j \in from..(i - 1) : s[j] \in cls
  ELSE Len(s) + 1
\* the last position holding a character outside cls, 0 if none
LastNotIn(s, cls) ==
  IF \E i \in 1..Len(s) : s[i] \notin cls
  THEN CHOOSE i \in 1..Len(s) :
         s[i] \notin cls /\ \A j \in (i + 1)..Len(s) : s[j] \in cls
  ELSE 0

\* s.slice(a - 1, b): the characters at positions a..b
Slice(s, a, b) == IF a > b THEN <<>> ELSE SubSeq(s, a, b)

\* s with the Len(t) characters at position i replaced by r
Splice(s, i, t, r) ==
  IF i = 0 THEN s
  ELSE Slice(s, 1, i - 1) \o r \o Slice(s, i + Len(t), Len(s))
\* s.replace(t, r) for a string pattern t: only the first occurrence is
\* replaced.  (No replacement text of the model holds a "$", so the special
\* replacement patterns $&, $1, ... never apply.)
ReplaceFirst(s, t, r) == Pick({Splice(s, i, t, r) : i \in {IndexOf(s, t)}})

\* s.trim()
Trim(s) == Slice(s, FirstNotIn(s, Space, 1), LastNotIn(s, Space))

\* the number of (possibly overlapping) occurrences of t in s
Occurrences(s, t) == Cardinality({i \in 1..Len(s) : StartsWithAt(s, i, t)})

\* ss[k] \o sep \o ss[k + 1] \o sep \o ... : Array.prototype.join
RECURSIVE JoinFrom(_, _, _)
JoinFrom(ss, sep, k) ==
  IF k > Len(ss) THEN <<>>
  ELSE IF k = Len(ss) THEN ss[k]
  ELSE ss[k] \o sep \o JoinFrom(ss, sep, k + 1)
Join(ss, sep) == JoinFrom(ss, sep, 1)
\* join with the empty separator
Concat(ss) == JoinFrom(ss, <<>>, 1)

\* the least and the greatest element of a non-empty set of numbers
MinOf(T) == CHOOSE i \in T : \A j \in T : i <= j
MaxOf(T) == CHOOSE i \in T : \A j \in T : i >= j
\* the least (greatest) element of a set of positions, 0 when it is empty
First(S) == Pick({IF T = {} THEN 0 ELSE MinOf(T) : T \in {S}})
Last(S) == Pick({IF T = {} THEN 0 ELSE MaxOf(T) : T \in {S}})

---------------------------------------------------------------------------
(* String literals of the program.                                         *)

\* '<head>'
HeadOpen == <<"<","h","e","a","d",">">>
\* '<html'
HtmlOpen == <<"<","h","t","m","l">>
\* '<html>\n<head>\n</head>'
HeadSynth == <<"<","h","t","m","l",">","\n","<","h","e","a","d",">","\n",
  "<","/","h","e","a","d",">">>
\* '</head>'
HeadClose == <<"<","/","h","e","a","d",">">>
\* '<style>\n'
StyleOpen == <<"<","s","t","y","l","e",">","\n">>
\* '\n</style>'
StyleClose == <<"\n","<","/","s","t","y","l","e",">">>
\* '\n'
NL == <<"\n">>
\* '<component'
LegacyOpen == <<"<","c","o","m","p","o","n","e","n","t">>
\* 'src="'
LegacySrc == <<"s","r","c","=","\"">>
\* '<!-- Error loading component '
LegacyErrOpen == <<"<","!","-","-"," ","E","r","r","o","r"," ","l","o","a",
  "d","i","n","g"," ","c","o","m","p","o","n","e","n","t"," ">>
\* ' -->'
LegacyErrClose == <<" ","-","-",">">>
\* 'export'
ExportKw == <<"e","x","p","o","r","t">>
\* '.els'
ElsExt == <<".","e","l","s">>
\* 'children'
children == <<"c","h","i","l","d","r","e","n">>

---------------------------------------------------------------------------
(* Component source files.  A source text is "export <Name> = <literal>";  *)
(* the object literal, which the program evaluates as JavaScript, is one   *)
(* character here and Evaluate gives the object it evaluates to.           *)

\* 'Card'
Card == <<"C","a","r","d">>
\* 'Button'
Button == <<"B","u","t","t","o","n">>
\* 'Missing'
Missing == <<"M","i","s","s","i","n","g">>
\* 'Boom'
Boom == <<"B","o","o","m">>
\* 'card'
card == <<"c","a","r","d">>
\* 'button'
button == <<"b","u","t","t","o","n">>
\* 'boom'
boom == <<"b","o","o","m">>
\* 'Loop'
Loop == <<"L","o","o","p">>
\* 'loop'
loop == <<"l","o","o","p">>
\* 'Badge'
Badge == <<"B","a","d","g","e">>
\* 'ui/badge': a component file in a subdirectory of the components directory
uiBadge == <<"u","i","/","b","a","d","g","e">>
\* 'empty': a component file with no content
empty == <<"e","m","p","t","y">>
\* '.c{}'
StylesCard1 == <<".","c","{","}">>
\* '.k{}'
StylesCard2 == <<".","k","{","}">>
\* '.b{}'
StylesButton == <<".","b","{","}">>
\* 'export Card = 1'
SrcCard1 == <<"e","x","p","o","r","t"," ","C","a","r","d"," ","="," ","1">>
\* 'export Card = 2'
SrcCard2 == <<"e","x","p","o","r","t"," ","C","a","r","d"," ","="," ","2">>
\* 'export Button = 3'
SrcButton == <<"e","x","p","o","r","t"," ","B","u","t","t","o","n"," ","=",
  " ","3">>
\* 'export Boom = 4'
SrcBoom == <<"e","x","p","o","r","t"," ","B","o","o","m"," ","="," ","4">>
\* 'export Card = 6'
SrcPlain == <<"e","x","p","o","r","t"," ","C","a","r","d"," ","="," ","6">>
\* 'export Card = 5'
SrcNoRender == <<"e","x","p","o","r","t"," ","C","a","r","d"," ","="," ","5">>
\* 'export Loop = 7'
SrcLoop == <<"e","x","p","o","r","t"," ","L","o","o","p"," ","="," ","7">>
\* 'export Badge = 6'
SrcBadge == <<"e","x","p","o","r","t"," ","B","a","d","g","e"," ","="," ","6">>
\* '<section><Loop/></section>'
LoopText == <<"<","s","e","c","t","i","o","n",">","<","L","o","o","p","/",">",
  "<","/","s","e","c","t","i","o","n",">">>
\* 'export Card = !'
SrcBroken == <<"e","x","p","o","r","t"," ","C","a","r","d"," ","="," ","!">>

\* a value of type Component | null
NullDef == [ok |-> FALSE, render |-> "null", styles |-> <<>>]
Def(r, s) == [ok |-> TRUE, render |-> r, styles |-> s]

\* what the object literal of a source evaluates to; NullDef when evaluating
\* it throws.  render "none": the object has no render function; render
\* "loop": the render function returns markup that holds the component's own
\* tag.
Evaluate(definition) ==
  IF definition = <<"1">> THEN Def("div", StylesCard1)
  ELSE IF definition = <<"2">> THEN Def("p", StylesCard2)
  ELSE IF definition = <<"3">> THEN Def("b", StylesButton)
  ELSE IF definition = <<"4">> THEN Def("throws", <<>>)
  ELSE IF definition = <<"5">> THEN Def("none", <<>>)
  ELSE IF definition = <<"6">> THEN Def("p", <<>>)
  ELSE IF definition = <<"7">> THEN Def("loop", <<>>)
  ELSE NullDef

\* a file of the components directory
NoFile == [exists |-> FALSE, content |-> <<>>]
File(text) == [exists |-> TRUE, content |-> text]

\* /export\s+([A-Za-z0-9_]+)\s*=/ matches at position i of content
ExportAt(content, i) ==
  /\ StartsWithAt(content, i, ExportKw)
  /\ i + 6 <= Len(content)
  /\ content[i + 6] \in Space
  /\ \E n \in {FirstNotIn(content, Space, i + 6)} :
       \E e \in {FirstNotIn(content, Alnum \cup {"_"}, n)} :
         \E q \in {FirstNotIn(content, Space, e)} :
           e > n /\ q <= Len(content) /\ content[q] = "="
NoExport == [found |-> FALSE, name |-> <<>>, stop |-> 0]
\* the match at position i: the exported name and the position of its "="
ExportFound(content, i) ==
  Pick({ [found |-> TRUE,
          name |-> Slice(content, n, FirstNotIn(content, Alnum \cup {"_"}, n) - 1),
          stop |-> FirstNotIn(content, Space,
                              FirstNotIn(content, Alnum \cup {"_"}, n))]
         : n \in {FirstNotIn(content, Space, i + 6)} })
\* content.match(/export\s+([A-Za-z0-9_]+)\s*=/): the first match
ExportMatch(content) ==
  IF \A i \in 1..Len(content) : ~ExportAt(content, i) THEN NoExport
  ELSE ExportFound(content,
         CHOOSE i \in 1..Len(content) :
           ExportAt(content, i) /\ \A j \in 1..(i - 1) : ~ExportAt(content, j))

---------------------------------------------------------------------------
(* Values of a PropsMap.                                                    *)

StringValue(s) == [kind |-> "string", val |-> s]
TrueValue == [kind |-> "true", val |-> <<>>]
ObjectValue(s) == [kind |-> "object", val |-> s]
NoProps == [k \in {} |-> TrueValue]
\* props[name] = value
Put(props, name, value) ==
  [k \in (DOMAIN props) \cup {name} |-> IF k = name THEN value ELSE props[k]]
\* a || b || true  over captured groups: the empty string is falsy
OrTrue(a, b) ==
  IF a # <<>> THEN StringValue(a)
  ELSE IF b # <<>> THEN StringValue(b)
  ELSE TrueValue

\* props.children as the render functions read it
Kids(props) ==
  IF children \in DOMAIN props /\ props[children].kind = "string"
  THEN props[children].val ELSE <<>>
\* the element a render function of the model returns
RenderTag(def) ==
  IF def.render = "div" THEN <<"d","i","v">>
  ELSE IF def.render = "p" THEN <<"p">>
  ELSE <<"b">>
\* component.render(props): the markup <tag>children</tag>, for a component
\* whose render returns
Render(def, props) ==
  IF def.render = "loop" THEN LoopText
  ELSE <<"<">> \o RenderTag(def) \o <<">">> \o Kids(props)
         \o <<"<", "/">> \o RenderTag(def) \o <<">">>
\* component.render(props) raises
RenderThrows(def) == def.render = "throws"

---------------------------------------------------------------------------
(* Maps of the program (Map<string, ...>): functions whose domain is the   *)
(* set of keys present.                                                    *)

EmptyMap == [k \in {} |-> NullDef]
Has(m, k) == k \in DOMAIN m
MapSet(m, k, v) == [x \in (DOMAIN m) \cup {k} |-> IF x = k THEN v ELSE m[x]]
MapDelete(m, k) == [x \in (DOMAIN m) \ {k} |-> m[x]]

\* the file at a path of the components directory
FileAt(fs, f) == IF f \in DOMAIN fs THEN fs[f] ELSE NoFile

---------------------------------------------------------------------------
(* ComponentLoader.loadExportedComponent                                   *)

\* module[componentName] for an export match m of the file's content
ImportOf(content, m, componentName) ==
  IF ~m.found \/ m.name # componentName THEN NullDef
  ELSE Evaluate(Trim(Slice(content, m.stop + 1, Len(content))))
\* await import(tempFile): what module[componentName] is.  The transformed
\* text is "const <exported> = <literal>" followed by
\* "module.exports = { <componentName> }", which throws a ReferenceError when
\* the file exports another name or nothing; any throw ends in the catch.
LoaderImport(content, componentName) ==
  Pick({ImportOf(content, m, componentName) : m \in {ExportMatch(content)}})

\* if (component && typeof component.render === 'function') ... else null
Callable(component) ==
  IF component.ok /\ component.render # "none" THEN component ELSE NullDef
\* the body of loadExportedComponent behind the cache check, for the file
LoadFile(file, componentName) ==
  IF ~file.exists THEN NullDef
  ELSE Pick({Callable(component) :
               component \in {LoaderImport(file.content, componentName)}})
\* the component loadExportedComponent returns, NullDef for null
LoadExportedResult(cache, fs, componentName) ==
  IF Has(cache, componentName) THEN cache[componentName]
  ELSE Pick({LoadFile(file, componentName) :
               file \in {FileAt(fs, ToLowerCase(componentName))}})

\* a load that caches whatever it produced, null included
CacheLoadedAny(cache, componentName, component) ==
  IF ~Has(cache, componentName)
  THEN MapSet(cache, componentName, component) ELSE cache
\* this.exportedComponents.set(componentName, component) on a fresh load
CacheLoaded(cache, componentName, component) ==
  IF ~Has(cache, componentName) /\ component.ok
  THEN MapSet(cache, componentName, component) ELSE cache
\* exportedComponents after loadExportedComponent
LoadExportedCache(cache, fs, componentName) ==
  Pick({CacheLoaded(cache, componentName, component) :
          component \in {LoadExportedResult(cache, fs, componentName)}})

---------------------------------------------------------------------------
(* The regular expressions of ComponentLoader.mount                        *)

\* <[A-Z] at position i
IsTagStart(s, i) == i + 1 <= Len(s) /\ s[i] = "<" /\ s[i + 1] \in Upper
\* the end of the longest [A-Z][a-zA-Z0-9]* at position i + 1
NameEnd(s, i) == FirstNotIn(s, Alnum, i + 2) - 1

\* componentScanRegex matches at position i:
\* /<([A-Z][a-zA-Z0-9]*)([^>]*?)(?:\/?>|>[\s\S]*?<\/\1>)/g
\* The first alternative takes the first ">" after the name, so a match is a
\* tag start up to the next ">" and the search goes on behind it.
ScanAt(s, i) == IsTagStart(s, i) /\ FirstIn(s, {">"}, i + 2) # 0
\* [...result.matchAll(componentScanRegex)], the first group of each match
RECURSIVE ScanNames(_, _)
ScanNamesAt(s, i) ==
  IF i = 0 THEN <<>>
  ELSE <<Slice(s, i + 1, NameEnd(s, i))>>
         \o ScanNames(s, FirstIn(s, {">"}, i + 2) + 1)
ScanNames(s, from) ==
  Pick({ScanNamesAt(s, i) : i \in {First({j \in from..Len(s) : ScanAt(s, j)})}})

\* </name>
TagClose(name) == <<"<", "/">> \o name \o <<">">>
\* the first position >= from where </name> occurs, 0 if none
ClosesAt(s, name, from) ==
  Pick({IndexOfFrom(s, t, from) : t \in {TagClose(name)}})

NoMatch == [found |-> FALSE, index |-> 0, stop |-> 0, name |-> <<>>,
            attrs |-> <<>>, hasChildren |-> FALSE, children |-> <<>>]
\* <Name attrs/> from position i to g, the name ending at e
SelfClosing(s, i, g, e) ==
  [found |-> TRUE, index |-> i, stop |-> g,
   name |-> Slice(s, i + 1, e),
   attrs |-> Slice(s, e + 1, g - 2),
   hasChildren |-> FALSE, children |-> <<>>]
\* <Name attrs>children</Name> from position i, the opening tag ending at g,
\* the name ending at e and the closing tag starting at c
PairedAt(s, i, g, e, c) ==
  [found |-> TRUE, index |-> i, stop |-> c + (e - i) + 2,
   name |-> Slice(s, i + 1, e),
   attrs |-> Slice(s, e + 1, g - 1),
   hasChildren |-> TRUE,
   children |-> Slice(s, g + 1, c - 1)]
Paired(s, i, g, e) ==
  IF e = 0 THEN NoMatch
  ELSE Pick({PairedAt(s, i, g, e, c) :
               c \in {ClosesAt(s, Slice(s, i + 1, e), g + 1)}})
\* componentRegex matched at position i:
\* /<([A-Z][a-zA-Z0-9]*)([^>]*?)(?:\/>|>([\s\S]*?)<\/\1>)/g
\* The attributes hold no ">", so the match ends its opening tag at the first
\* ">" (position g): with "/" before it the tag is self-closing; otherwise
\* the first </name> behind g closes it, for the longest name that has one
\* (the name group is greedy and gives characters back to the attributes).
MatchTag(s, i, g, eMax) ==
  IF g = 0 THEN NoMatch
  ELSE IF s[g - 1] = "/" THEN SelfClosing(s, i, g, eMax)
  ELSE Pick({Paired(s, i, g, e) :
               e \in {Last({x \in (i + 1)..eMax :
                              ClosesAt(s, Slice(s, i + 1, x), g + 1) # 0})}})
MatchAt(s, i) ==
  IF ~IsTagStart(s, i) THEN NoMatch
  ELSE Pick({MatchTag(s, i, g, eMax) :
               g \in {FirstIn(s, {">"}, i + 2)}, eMax \in {NameEnd(s, i)}})

\* componentRegex.exec(s) with componentRegex.lastIndex = last: the leftmost
\* match at an offset >= last
ExecAt(s, i) == IF i = 0 THEN NoMatch ELSE MatchAt(s, i)
Exec(s, last) ==
  Pick({ExecAt(s, i) :
          i \in {First({j \in (last + 1)..Len(s) : IsTagStart(s, j)
                                                    /\ MatchAt(s, j).found})}})

\* one match of the attribute regex of mount at position i, the name ending
\* at e, the double-quoted value closing at dq, the single-quoted one at sq
\* (0: that alternative does not match):
\* /([a-zA-Z0-9]+)(?:="([^"]*)"|\'([^\']*)\')?/g, props[name] = v1 || v2 || true
MountAttrOf(str, i, e, dq, sq) ==
  [name |-> Slice(str, i, e),
   value |-> OrTrue(IF dq # 0 THEN Slice(str, e + 3, dq - 1) ELSE <<>>,
                    IF dq = 0 /\ sq # 0 THEN Slice(str, e + 2, sq - 1)
                    ELSE <<>>),
   stop |-> IF dq # 0 THEN dq ELSE IF sq # 0 THEN sq ELSE e]
MountAttrTo(str, i, e) ==
  Pick({MountAttrOf(str, i, e, dq, sq) :
          dq \in {IF StartsWithAt(str, e + 1, <<"=", "\"">>)
                  THEN FirstIn(str, {"\""}, e + 3) ELSE 0},
          sq \in {IF StartsWithAt(str, e + 1, <<"'">>)
                  THEN FirstIn(str, {"'"}, e + 2) ELSE 0}})
MountAttrAt(str, i) ==
  Pick({MountAttrTo(str, i, e) : e \in {FirstNotIn(str, Alnum, i) - 1}})

\* the attribute loop of mount from position `from`, props so far
RECURSIVE MountParseAttrs(_, _, _)
MountParsePut(str, props, a) ==
  Pick({MountParseAttrs(str, a.stop + 1, p) :
          p \in {Put(props, a.name, a.value)}})
MountParseAt(str, i, props) ==
  IF i = 0 THEN props
  ELSE Pick({MountParsePut(str, props, a) : a \in {MountAttrAt(str, i)}})
MountParseAttrs(str, from, props) ==
  Pick({MountParseAt(str, i, props) : i \in {FirstIn(str, Alnum, from)}})

\* if (children) props.children = children.trim()
WithChildren(m, props) ==
  IF m.hasChildren /\ m.children # <<>>
  THEN Put(props, children, StringValue(Trim(m.children)))
  ELSE props
\* the props mount hands to render for a match
MountProps(m) ==
  Pick({WithChildren(m, props) : props \in {MountParseAttrs(m.attrs, 1, NoProps)}})

---------------------------------------------------------------------------
(* The steps of ComponentLoader.mount before its substitution loop         *)

\* if (!result.includes('<head>')) result = result.replace('<html', ...)
HeadNormalize(h) ==
  IF ~Includes(h, HeadOpen) THEN ReplaceFirst(h, HtmlOpen, HeadSynth) ELSE h

\* componentStyles is a sequence of [name, styles] in insertion order
StylesHas(cs, name) == \E k \in 1..Len(cs) : cs[k].name = name
\* the collection without the componentStyles.has(name) test
CollectStylesEachTime(cs, name, component) ==
  IF component.ok /\ component.styles # <<>>
  THEN Append(cs, [name |-> name, styles |-> component.styles])
  ELSE cs
\* a collection that puts the styles found last in front
CollectStylesFirst(cs, name, component) ==
  IF component.ok /\ component.styles # <<>> /\ ~StylesHas(cs, name)
  THEN <<[name |-> name, styles |-> component.styles]>> \o cs
  ELSE cs
\* if (component?.styles && !componentStyles.has(name)) componentStyles.set(...)
CollectStyles(cs, name, component) ==
  IF component.ok /\ component.styles # <<>> /\ ~StylesHas(cs, name)
  THEN Append(cs, [name |-> name, styles |-> component.styles])
  ELSE cs

\* the pre-scan loop over the matches from the k-th on: [cache, cs] after it
RECURSIVE PreCollectFrom(_, _, _, _, _)
PreCollectAt(names, k, cache, fs, cs, name) ==
  Pick({PreCollectFrom(names, k + 1, c2, fs, s2) :
          c2 \in {LoadExportedCache(cache, fs, name)},
          s2 \in {CollectStyles(cs, name,
                                LoadExportedResult(cache, fs, name))}})
PreCollectFrom(names, k, cache, fs, cs) ==
  IF k > Len(names) THEN [cache |-> cache, cs |-> cs]
  ELSE Pick({PreCollectAt(names, n, cache, fs, cs, names[n]) : n \in {k}})
PreCollect(names, cache, fs, cs) == PreCollectFrom(names, 1, cache, fs, cs)

\* Array.from(componentStyles.values()).join('\n') in a <style> element
StyleTag(cs) ==
  StyleOpen \o Join([k \in 1..Len(cs) |-> cs[k].styles], NL) \o StyleClose
\* the injection without the componentStyles.size > 0 test
InjectStylesAlways(res, cs) ==
  ReplaceFirst(res, HeadClose, StyleTag(cs) \o NL \o HeadClose)
\* if (componentStyles.size > 0) result = result.replace('</head>', ...)
InjectStyles(res, cs) ==
  IF Len(cs) > 0
  THEN ReplaceFirst(res, HeadClose, StyleTag(cs) \o NL \o HeadClose)
  ELSE res

NoLegacy == [found |-> FALSE, stop |-> 0, src |-> <<>>]
\* <component, white space up to n - 1, src=", the value up to q - 1
LegacyTo(s, v, q) ==
  IF q <= v THEN NoLegacy
  ELSE Pick({IF g = 0 THEN NoLegacy
             ELSE [found |-> TRUE, stop |-> g, src |-> Slice(s, v, q - 1)] :
               g \in {FirstIn(s, {">"}, q + 1)}})
LegacyFrom(s, w, n) ==
  IF n <= w \/ ~StartsWithAt(s, n, LegacySrc) THEN NoLegacy
  ELSE Pick({LegacyTo(s, n + Len(LegacySrc), q) :
               q \in {FirstIn(s, {"\""}, n + Len(LegacySrc))}})
\* /<component\s+src="([^"]+)"[^>]*>/ matched at position i
LegacyMatchAt(s, i) ==
  IF ~StartsWithAt(s, i, LegacyOpen) THEN NoLegacy
  ELSE Pick({LegacyFrom(s, i + Len(LegacyOpen), n) :
               n \in {FirstNotIn(s, Space, i + Len(LegacyOpen))}})

\* the callback of the legacy replace: the cached raw content, or the error
\* comment when the cache has none (an empty content is falsy)
LegacyContent(raw, src) ==
  IF Has(raw, src) /\ raw[src] # <<>> THEN raw[src]
  ELSE LegacyErrOpen \o src \o LegacyErrClose

\* result.replace(/<component\s+src="([^"]+)"[^>]*>/g, callback), from `from`
RECURSIVE LegacyReplace(_, _, _)
LegacyReplaceTag(s, from, raw, i, m) ==
  Slice(s, from, i - 1) \o LegacyContent(raw, m.src)
    \o LegacyReplace(s, m.stop + 1, raw)
LegacyReplaceAt(s, from, raw, i) ==
  IF i = 0 THEN Slice(s, from, Len(s))
  ELSE Pick({LegacyReplaceTag(s, from, raw, i, m) : m \in {LegacyMatchAt(s, i)}})
LegacyReplace(s, from, raw) ==
  Pick({LegacyReplaceAt(s, f, raw, i) :
          f \in {from},
          i \in {First({j \in from..Len(s) : LegacyMatchAt(s, j).found})}})

---------------------------------------------------------------------------
(* Pages.  A page is written as a prefix, a body of elements and a suffix; *)
(* an element is a component tag in one of the forms of the tag grammar, a *)
(* legacy inclusion tag or plain markup.  Serialize gives its text.        *)

\* 'components/'
ComponentsDir == <<"c","o","m","p","o","n","e","n","t","s","/">>
\* '<html><head></head><body>'
PrefixHead == <<"<","h","t","m","l",">","<","h","e","a","d",">","<","/","h",
  "e","a","d",">","<","b","o","d","y",">">>
\* '<html><body>'
PrefixNoHead == <<"<","h","t","m","l",">","<","b","o","d","y",">">>
\* '<html lang="en"><body>'
PrefixLang == <<"<","h","t","m","l"," ","l","a","n","g","=","\"","e","n","\"",
  ">","<","b","o","d","y",">">>
\* '</body></html>'
Suffix == <<"<","/","b","o","d","y",">","<","/","h","t","m","l",">">>
\* 'title'
title == <<"t","i","t","l","e">>
\* 'abc'
abc == <<"a","b","c">>
\* 'foo'
foo == <<"f","o","o">>
\* '1'
one == <<"1">>
\* 'size'
size == <<"s","i","z","e">>
\* 'large'
large == <<"l","a","r","g","e">>
\* 'color'
color == <<"c","o","l","o","r">>
\* 'primary'
primary == <<"p","r","i","m","a","r","y">>
\* 'Go'
Go == <<"G","o">>
\* 'disabled'
disabled == <<"d","i","s","a","b","l","e","d">>
\* 'data'
data == <<"d","a","t","a">>
\* 'data-id', 'id'
dataId == <<"d","a","t","a","-","i","d">>
idAttr == <<"i","d">>
\* 'not json'
notJson == <<"n","o","t"," ","j","s","o","n">>
\* 'hi'
hi == <<"h","i">>
\* '<p>x</p>'
ParaText == <<"<","p",">","x","<","/","p",">">>

\* join(directory, 'components', name + '.els'), relative to the root
PathOf(f) == ComponentsDir \o f \o ElsExt

Attr(n, k, v) == [name |-> n, kind |-> k, value |-> v]
Element(form, name, attrs, inner) ==
  [form |-> form, name |-> name, attrs |-> attrs, inner |-> inner]

\* name="value", name='value', name={value} or a bare name
AttrText(a) ==
  IF a.kind = "dq" THEN a.name \o <<"=", "\"">> \o a.value \o <<"\"">>
  ELSE IF a.kind = "sq" THEN a.name \o <<"=", "'">> \o a.value \o <<"'">>
  ELSE IF a.kind = "obj" THEN a.name \o <<"=", "{">> \o a.value \o <<"}">>
  ELSE a.name
AttrsText(attrs) ==
  Concat([k \in 1..Len(attrs) |-> <<" ">> \o AttrText(attrs[k])])

Serialize(e) ==
  IF e.form = "self"
    THEN <<"<">> \o e.name \o AttrsText(e.attrs) \o <<"/", ">">>
  ELSE IF e.form = "selfsp"
    THEN <<"<">> \o e.name \o AttrsText(e.attrs) \o <<" ", "/", ">">>
  ELSE IF e.form = "open"
    THEN <<"<">> \o e.name \o AttrsText(e.attrs) \o <<">">> \o e.inner
           \o TagClose(e.name)
  ELSE IF e.form = "lone"
    THEN <<"<">> \o e.name \o AttrsText(e.attrs) \o <<">">>
  ELSE IF e.form = "legacy"
    THEN LegacyOpen \o <<" ">> \o LegacySrc \o e.name \o <<"\"", ">">>
  ELSE e.inner

IsTag(e) == e.form \in {"self", "selfsp", "open"}

\* <Card/>
CardSelf == Element("self", Card, <<>>, <<>>)
\* <Card title="abc"/>
CardTitled == Element("self", Card, <<Attr(title, "dq", abc)>>, <<>>)
\* <Card>hi</Card>
CardOpen == Element("open", Card, <<>>, hi)
\* <Missing foo="1" />
MissingTag == Element("selfsp", Missing, <<Attr(foo, "dq", one)>>, <<>>)
\* <Button size="large" color="primary">Go</Button>
ButtonGo ==
  Element("open", Button,
          <<Attr(size, "dq", large), Attr(color, "dq", primary)>>, Go)
\* <Button disabled>Go</Button>
ButtonBare == Element("open", Button, <<Attr(disabled, "bare", <<>>)>>, Go)
\* <Button disabled>
ButtonLone == Element("lone", Button, <<Attr(disabled, "bare", <<>>)>>, <<>>)
\* <Button size="">Go</Button>
ButtonEmpty == Element("open", Button, <<Attr(size, "dq", <<>>)>>, Go)
\* <Button size='large'>Go</Button>
ButtonSq == Element("open", Button, <<Attr(size, "sq", large)>>, Go)
\* <Loop/>
LoopSelf == Element("self", Loop, <<>>, <<>>)
\* <Card data={not json}/>
CardJson == Element("self", Card, <<Attr(data, "obj", notJson)>>, <<>>)
\* <Card data-id="abc"/>
CardHyphen == Element("self", Card, <<Attr(dataId, "dq", abc)>>, <<>>)
\* <Boom/>
BoomSelf == Element("self", Boom, <<>>, <<>>)
\* <p>x</p>
Para == Element("text", <<>>, <<>>, ParaText)
\* <component src="components/card.els">
LegacyCard == Element("legacy", PathOf(card), <<>>, <<>>)
\* <component src="components/gone.els">
LegacyGone == Element("legacy", PathOf(Missing), <<>>, <<>>)

\* <component src="components/empty.els">
LegacyEmpty == Element("legacy", PathOf(empty), <<>>, <<>>)

Elements == {CardSelf, CardTitled, CardOpen, MissingTag, ButtonGo, ButtonBare,
             ButtonLone, ButtonEmpty, ButtonSq, CardJson, CardHyphen, BoomSelf,
             LoopSelf, Para, LegacyCard, LegacyGone, LegacyEmpty}
Prefixes == {PrefixHead, PrefixNoHead, PrefixLang}

\* the number of elements of a page body
MaxTags == 2
Bodies == UNION {[1..n -> Elements] : n \in 0..MaxTags}
PageText(prefix, body) ==
  prefix \o Concat([k \in 1..Len(body) |-> Serialize(body[k])]) \o Suffix

---------------------------------------------------------------------------
(* Concurrent calls of ComponentLoader.loadExportedComponent               *)

\* two calls run at a time
Calls == {1, 2}
\* the component both calls resolve, and its source file
Raced == button
RacedName == Capitalize(Raced)
\* a call that has not begun
NotLoading == [pc |-> "idle", miss |-> FALSE, content |-> <<>>,
               component |-> NullDef, ret |-> NullDef]

---------------------------------------------------------------------------
(* PluginManager: the hook collection and the plugins of a run             *)

\* the keys of this.hooks as the constructor sets them
HookNames == {"beforeInit", "afterInit", "beforeRouteRegistration",
              "afterRouteRegistration", "beforeComponentRegistration",
              "afterComponentRegistration", "beforeRequest", "afterRequest"}
\* a hook function of a plugin, and whether calling it throws
Hook(plugin, hookName, throws) ==
  [plugin |-> plugin, hookName |-> hookName, throws |-> throws]
\* a PluginDefinition: plugin.hooks in the order of Object.entries, and what
\* plugin.init is: "none" (no function), "returns" or "throws"
Plugin(id, pluginHooks, init) ==
  [id |-> id, hooks |-> pluginHooks, init |-> init]
\* a logger: two lifecycle hooks and one under a name this.hooks does not have
PluginLogger ==
  Plugin("logger", <<Hook("logger", "beforeInit", FALSE),
                     Hook("logger", "onLog", FALSE),
                     Hook("logger", "afterRouteRegistration", FALSE)>>,
         "returns")
\* a plugin whose init throws
PluginFaulty ==
  Plugin("faulty", <<Hook("faulty", "beforeInit", FALSE),
                     Hook("faulty", "afterInit", FALSE)>>, "throws")
\* a plugin with no init and a hook that throws
PluginThrower ==
  Plugin("thrower", <<Hook("thrower", "beforeRouteRegistration", TRUE)>>,
         "none")
PluginDefinitions == {PluginLogger, PluginFaulty, PluginThrower}
\* the names plugins are registered under, and the options given
PluginNames == {"a", "b"}
PluginOptions == {"{}", "{ level: 1 }"}
NoPlugins == [name \in {} |-> [plugin |-> PluginLogger, options |-> "{}"]]

\* no init call was made; no register call was made
NotStarted == [state |-> "idle", step |-> 0, hook |-> 0]
NoRegister == [name |-> "", plugin |-> PluginLogger, outcome |-> "none",
               initRan |-> FALSE, initBefore |-> "idle",
               pluginsBefore |-> NoPlugins,
               hooksBefore |-> [hookName \in HookNames |-> <<>>]]

---------------------------------------------------------------------------
(* Store: the state object, its keys and its listeners                     *)

\* the keys of the state and the value of a key the object does not have
Keys == {"a", "b"}
Undefined == "undefined"
\* new Store({ a: "0" })
InitialState == [key \in Keys |-> IF key = "a" THEN "0" ELSE Undefined]
\* 'change' and `change:${key}`
ChangeEvent == "change"
KeyEvent(key) == "change:" \o key
EventNames == {ChangeEvent} \cup {KeyEvent(key) : key \in Keys}
\* this.events = {}
NoListeners == [event \in EventNames |-> <<>>]
\* no setState call was made
NoSetState == [n |-> 0, at |-> 0, before |-> InitialState, update |-> <<>>,
               emitted |-> <<>>, invoked |-> <<>>]

---------------------------------------------------------------------------
(* The components directory                                                *)

FileNames == {card, button, boom, loop, uiBadge, empty}
\* what both projects hold: a component that renders its own tag, a component
\* in a subdirectory and a file created empty
FilesCommon(f) ==
  IF f = boom THEN File(SrcBoom)
  ELSE IF f = loop THEN File(SrcLoop)
  ELSE IF f = uiBadge THEN File(SrcBadge)
  ELSE File(<<>>)
\* the project as scaffolded, and one with another Card and no Button
FilesScaffold ==
  [f \in FileNames |-> IF f = card THEN File(SrcCard1)
                       ELSE IF f = button THEN File(SrcButton)
                       ELSE FilesCommon(f)]
FilesOther ==
  [f \in FileNames |-> IF f = card THEN File(SrcCard2)
                       ELSE IF f = button THEN NoFile
                       ELSE FilesCommon(f)]
FileConfigs == {FilesScaffold, FilesOther}
ExistingFiles(fs) == {f \in DOMAIN fs : fs[f].exists}

---------------------------------------------------------------------------
(* ComponentLoader: scanComponents and mount                               *)

\* a set as a sequence, in some order: the order readdirSync / glob lists
RECURSIVE SeqOf(_)
SeqRest(S, x) == <<x>> \o SeqOf(S \ {x})
SeqOf(S) ==
  IF S = {} THEN <<>> ELSE Pick({SeqRest(T, Pick(T)) : T \in {S}})

\* path.basename(file, '.els') of the file named f
Basename(f) ==
  Pick({Slice(f, k + 1, Len(f)) : k \in {Last({i \in 1..Len(f) : f[i] = "/"})}})

\* exportedComponents after the loop of scanComponents over the files fsq,
\* from the k-th on
RECURSIVE ScanExported(_, _, _, _)
ScanExported(fsq, k, cache, fs) ==
  IF k > Len(fsq) THEN cache
  ELSE Pick({ScanExported(fsq, n + 1, c2, fs) :
               n \in {k},
               c2 \in {LoadExportedCache(cache, fs,
                                         Capitalize(Basename(fsq[k])))}})

\* the file whose path is p
FileOfPath(fs, p) == CHOOSE g \in ExistingFiles(fs) : PathOf(g) = p
\* ComponentLoader.components after loadComponent(path) for every file
ScanRaw(fs) ==
  [p \in {PathOf(f) : f \in ExistingFiles(fs)} |-> fs[FileOfPath(fs, p)].content]

\* no html() response is being produced
NotServing == [state |-> "idle", html |-> <<>>, result |-> <<>>, round |-> 0,
               out1 |-> <<>>, elems |-> <<>>]

Init ==
  /\ files \in FileConfigs
  /\ exportedComponents = EmptyMap
  /\ loaderComponents = EmptyMap
  /\ pc = "init"
  /\ html = <<>>
  /\ result = <<>>
  /\ lastIndex = 0
  /\ componentStyles = <<>>
  /\ calls = <<>>
  /\ turns = 0
  /\ elems = <<>>
  /\ round = 0
  /\ out1 = <<>>
  /\ components = EmptyMap
  /\ styles = EmptyMap
  /\ events = <<>>
  /\ trail = <<>>
  /\ mpc = "init"
  /\ served = NotServing
  /\ tempFile = NoFile
  /\ moduleCache = EmptyMap
  /\ now = 0
  /\ loads = [i \in Calls |-> NotLoading]
  /\ plugins = NoPlugins
  /\ hooks = [hookName \in HookNames |-> <<>>]
  /\ initAt = NotStarted
  /\ lifecycle = <<>>
  /\ registered = NoRegister
  /\ state = InitialState
  /\ emitterEvents = NoListeners
  /\ subs = <<>>
  /\ lastSet = NoSetState

\* ElysiumRouter.initialize: ComponentLoader.scanComponents, then the routes
ScanComponents ==
  /\ pc = "init"
  /\ \E fsq \in {SeqOf(ExistingFiles(files))} :
       exportedComponents' = ScanExported(fsq, 1, exportedComponents, files)
  /\ loaderComponents' = ScanRaw(files)
  /\ pc' = "idle"
  /\ UNCHANGED <<files, html, result, lastIndex, componentStyles, calls,
                 turns, elems, round, out1, managerVars, served, appVars>>

\* mount(h), up to its substitution loop: head, pre-scan, styles, legacy tags
MountEnter(h) ==
  \E normal \in {HeadNormalize(h)} :
    \E names \in {ScanNames(normal, 1)} :
      \E pre \in {PreCollect(names, exportedComponents, files, <<>>)} :
        \E styled \in {InjectStyles(normal, pre.cs)} :
          /\ html' = h
          /\ exportedComponents' = pre.cache
          /\ componentStyles' = pre.cs
          /\ result' = LegacyReplace(styled, 1, loaderComponents)
          /\ lastIndex' = 0
          /\ calls' = <<>>
          /\ turns' = 0
          /\ pc' = "loop"

\* a page route is requested: content = await ComponentLoader.mount(content)
MountStart ==
  /\ pc = "idle"
  /\ \E prefix \in Prefixes, body \in Bodies :
       \E page \in {PageText(prefix, body)} :
         /\ MountEnter(page)
         /\ elems' = body
  /\ round' = 1
  /\ out1' = <<>>
  /\ UNCHANGED <<files, loaderComponents, managerVars, served, appVars>>

\* the loop body for a match whose component loaded: props, render, replace
MountRender(match, component) ==
  \E props \in {MountProps(match)},
     fullMatch \in {Slice(result, match.index, match.stop)} :
    /\ calls' = Append(calls, [name |-> match.name, fullMatch |-> fullMatch,
                               attributesStr |-> match.attrs, props |-> props])
    /\ IF RenderThrows(component)
       THEN /\ pc' = "thrown"
            /\ UNCHANGED result
       ELSE /\ pc' = "loop"
            /\ \E rendered \in {Render(component, props)} :
                 result' = ReplaceFirst(result, fullMatch, rendered)

\* the loop body for a match
MountMatch(match) ==
  \E component \in {LoadExportedResult(exportedComponents, files, match.name)} :
    /\ lastIndex' = match.stop
    /\ exportedComponents' =
         CacheLoaded(exportedComponents, match.name, component)
    /\ IF component.ok
       THEN /\ componentStyles' =
                 CollectStyles(componentStyles, match.name, component)
            /\ MountRender(match, component)
       ELSE /\ pc' = "loop"
            /\ UNCHANGED <<componentStyles, calls, result>>

\* the number of render calls of one mount whose text a run records
MaxRenders == 4

\* one turn of `while ((match = componentRegex.exec(result)) !== null)`.
\* The text of a mount grows with every turn that renders a component whose
\* output is longer than its tag; a run records the text up to MaxRenders
\* render calls, and of a turn that follows only that it ran.
MountStep ==
  /\ pc = "loop"
  /\ \E match \in {Exec(result, lastIndex)} :
       IF ~match.found
       THEN /\ pc' = "done"
            /\ lastIndex' = 0
            /\ UNCHANGED <<exportedComponents, componentStyles, calls,
                           turns, result>>
       ELSE IF Len(calls) < MaxRenders
       THEN /\ MountMatch(match)
            /\ UNCHANGED turns
       ELSE /\ turns' = 1 - turns
            /\ UNCHANGED <<pc, lastIndex, exportedComponents,
                           componentStyles, calls, result>>
  /\ UNCHANGED <<files, loaderComponents, html, elems, round, out1,
                 managerVars, served, appVars>>

\* the caller mounts what mount returned: mount(mount(doc))
MountAgain ==
  /\ pc = "done"
  /\ round = 1
  /\ MountEnter(result)
  /\ round' = 2
  /\ out1' = result
  /\ UNCHANGED <<files, loaderComponents, elems, managerVars, served, appVars>>

\* the route handler is over: mount returned or rejected
MountReturn ==
  /\ pc \in {"done", "thrown"}
  /\ pc' = "idle"
  /\ html' = <<>>
  /\ result' = <<>>
  /\ lastIndex' = 0
  /\ componentStyles' = <<>>
  /\ calls' = <<>>
  /\ turns' = 0
  /\ elems' = <<>>
  /\ round' = 0
  /\ out1' = <<>>
  /\ UNCHANGED <<files, exportedComponents, loaderComponents, managerVars,
                 served, appVars>>

Next == ScanComponents \/ MountStart \/ MountStep \/ MountAgain \/ MountReturn

Spec == Init /\ [][Next]_vars

\* the event loop runs a mount that can take a turn: every await of mount
\* resolves, so the loop body is scheduled again
SpecLive == Init /\ [][Next]_vars /\ WF_vars(MountStep)

---------------------------------------------------------------------------
(* The component parser: parseComponentFile and parseProps                 *)

NoParsed == [ok |-> FALSE, name |-> <<>>, component |-> NullDef]
\* the value parseComponentFile returns for a readable file: the exported
\* name and the object its text behind the first "=" evaluates to
ParsedOf(content, m) ==
  IF ~m.found THEN NoParsed
  ELSE [ok |-> TRUE, name |-> m.name,
        component |->
          Evaluate(Trim(Slice(content, IndexOf(content, <<"=">>) + 1,
                              Len(content))))]
\* parseComponentFile(filePath): null when the file cannot be read or has no
\* export statement
ParseComponentFile(file) ==
  IF ~file.exists THEN NoParsed
  ELSE Pick({ParsedOf(file.content, m) : m \in {ExportMatch(file.content)}})

\* JSON.parse of the text of an object: members are "key":value pairs
\* separated by commas, a value a number or a string; white space is free.
\* JsonValueEnd: the position behind the value starting at i, 0 if none.
JsonStringEnd(s, i) ==
  IF i <= Len(s) /\ s[i] = "\"" /\ FirstIn(s, {"\""}, i + 1) # 0
  THEN FirstIn(s, {"\""}, i + 1) + 1 ELSE 0
JsonValueEnd(s, i) ==
  IF i <= Len(s) /\ s[i] \in Digit THEN FirstNotIn(s, Digit, i)
  ELSE JsonStringEnd(s, i)
\* the members from position i on are well formed
RECURSIVE JsonMembers(_, _)
JsonAfterValue(s, v) ==
  IF v = 0 THEN FALSE
  ELSE \E n \in {FirstNotIn(s, Space, v)} :
         \/ n = Len(s) + 1
         \/ n <= Len(s) /\ s[n] = "," /\ JsonMembers(s, n + 1)
JsonAfterKey(s, k) ==
  IF k = 0 THEN FALSE
  ELSE \E c \in {FirstNotIn(s, Space, k)} :
         /\ c <= Len(s)
         /\ s[c] = ":"
         /\ \E v \in {JsonValueEnd(s, FirstNotIn(s, Space, c + 1))} :
              JsonAfterValue(s, v)
JsonMembers(s, i) ==
  \E q \in {JsonStringEnd(s, FirstNotIn(s, Space, i))} : JsonAfterKey(s, q)
\* JSON.parse(`{${cleanObject}}`) returns
JsonParses(cleanObject) ==
  \/ FirstNotIn(cleanObject, Space, 1) = Len(cleanObject) + 1
  \/ JsonMembers(cleanObject, 1)

\* the value parseProps stores for {objectValue}: the decoded object, or the
\* bracketed text itself when JSON.parse throws
ObjectProp(objectValue) ==
  Pick({IF JsonParses(clean) THEN ObjectValue(clean)
        ELSE StringValue(objectValue) :
          clean \in {Trim(Slice(objectValue, 2, Len(objectValue) - 1))}})
\* one match of attrRegex of parseProps at position i, the name ending at e,
\* the value (if any) closing at q:
\* /([a-zA-Z0-9_-]+)(?:=(?:"([^"]*)"|'([^']*)'|(\{[^}]*\})))?/g
ParseAttrOf(str, i, e, q) ==
  [name |-> Slice(str, i, e),
   value |-> IF q = 0 THEN TrueValue
             ELSE IF str[e + 2] = "{" THEN ObjectProp(Slice(str, e + 2, q))
             ELSE OrTrue(Slice(str, e + 3, q - 1), <<>>),
   stop |-> IF q = 0 THEN e ELSE q]
\* the position closing the value that starts behind the "=" at e + 1
ParseValueEnd(str, e) ==
  IF StartsWithAt(str, e + 1, <<"=", "\"">>) THEN FirstIn(str, {"\""}, e + 3)
  ELSE IF StartsWithAt(str, e + 1, <<"=", "'">>) THEN FirstIn(str, {"'"}, e + 3)
  ELSE IF StartsWithAt(str, e + 1, <<"=", "{">>) THEN FirstIn(str, {"}"}, e + 3)
  ELSE 0
ParseAttrTo(str, i, e) ==
  Pick({ParseAttrOf(str, i, e, q) : q \in {ParseValueEnd(str, e)}})
ParseAttrAt(str, i) ==
  Pick({ParseAttrTo(str, i, e) : e \in {FirstNotIn(str, AttrNameChar, i) - 1}})

\* the loop of parseProps from position `from`, props so far
RECURSIVE ParsePropsFrom(_, _, _)
ParsePropsPut(str, props, a) ==
  Pick({ParsePropsFrom(str, a.stop + 1, p) :
          p \in {Put(props, a.name, a.value)}})
ParsePropsAt(str, i, props) ==
  IF i = 0 THEN props
  ELSE Pick({ParsePropsPut(str, props, a) : a \in {ParseAttrAt(str, i)}})
ParsePropsFrom(str, from, props) ==
  Pick({ParsePropsAt(str, i, props) : i \in {FirstIn(str, AttrNameChar, from)}})
\* parseProps(propsStr)
ParseProps(propsStr) == ParsePropsFrom(propsStr, 1, NoProps)

---------------------------------------------------------------------------
(* ComponentManager.loadComponent and scanComponents                       *)

\* what loadComponent stores: parsedComponent && name && component
Storable(parsed) == parsed.ok /\ parsed.name # <<>> /\ parsed.component.ok
\* this.components after loadComponent(file)
ManagerComponents(comps, parsed) ==
  IF Storable(parsed) THEN MapSet(comps, parsed.name, parsed.component)
  ELSE comps
\* this.styles after loadComponent(file)
ManagerStyles(sty, parsed) ==
  IF Storable(parsed) /\ parsed.component.styles # <<>>
  THEN MapSet(sty, parsed.name, parsed.component.styles)
  ELSE sty
\* [components, styles] after loadComponent of the file named f
ManagerLoad(comps, sty, fs, f) ==
  Pick({[components |-> ManagerComponents(comps, parsed),
         styles |-> ManagerStyles(sty, parsed)] :
          parsed \in {ParseComponentFile(FileAt(fs, f))}})
\* the loop of scanComponents over the files fsq, from the k-th on
RECURSIVE ManagerScan(_, _, _, _)
ManagerScan(fsq, k, maps, fs) ==
  IF k > Len(fsq) THEN maps
  ELSE Pick({ManagerScan(fsq, n + 1, loaded, fs) :
               n \in {k},
               loaded \in {ManagerLoad(maps.components, maps.styles, fs,
                                       fsq[k])}})

---------------------------------------------------------------------------
(* The development server: ElysiumJS.init, the component watcher and the   *)
(* edits of the developer                                                  *)

\* the file the developer edits, and the texts written to it
Watched == card
WriteTexts == {SrcCard2, SrcPlain, SrcBroken, SrcNoRender}
\* the number of edits, events handled and resolves of a run
MaxOps == 6

Op(op, text, def) == [op |-> op, text |-> text, def |-> def]
\* what an edit needs: room for itself and for the handling of its event
RoomFor(n) == Len(trail) + Len(events) + n <= MaxOps

\* ElysiumJS.init (componentManager.scanComponents) and setupDevServer
ServerInit ==
  /\ mpc = "init"
  /\ mpc' = "ready"
  /\ \E fsq \in {SeqOf(ExistingFiles(files))} :
       \E maps \in {ManagerScan(fsq, 1, [components |-> components,
                                         styles |-> styles], files)} :
         /\ components' = maps.components
         /\ styles' = maps.styles
  /\ UNCHANGED <<files, loaderVars, events, trail, served, appVars>>

\* the developer writes the watched file: chokidar emits add or change
FsWrite ==
  /\ mpc = "ready"
  /\ RoomFor(2)
  /\ \E text \in WriteTexts :
       /\ files[Watched] # File(text)
       /\ files' = [files EXCEPT ![Watched] = File(text)]
       /\ trail' = Append(trail, Op("write", text, NullDef))
  /\ events' = Append(events, IF files[Watched].exists THEN "change" ELSE "add")
  /\ UNCHANGED <<loaderVars, components, styles, mpc, served, appVars>>

\* the developer deletes the watched file: chokidar emits unlink
FsDelete ==
  /\ mpc = "ready"
  /\ RoomFor(2)
  /\ files[Watched].exists
  /\ files' = [files EXCEPT ![Watched] = NoFile]
  /\ trail' = Append(trail, Op("delete", <<>>, NullDef))
  /\ events' = Append(events, "unlink")
  /\ UNCHANGED <<loaderVars, components, styles, mpc, served, appVars>>

\* componentWatcher.on(type, ...) for add and change: loadComponent(path)
HandleLoad(type) ==
  /\ events # <<>>
  /\ Head(events) = type
  /\ events' = Tail(events)
  /\ \E maps \in {ManagerLoad(components, styles, files, Watched)} :
       /\ components' = maps.components
       /\ styles' = maps.styles
  /\ trail' = Append(trail, Op(type, <<>>, NullDef))
  /\ UNCHANGED <<files, loaderVars, mpc, served, appVars>>
HandleAdd == HandleLoad("add")
HandleChange == HandleLoad("change")

\* componentWatcher.on('unlink', ...): the key is path.basename(file, '.els')
HandleUnlink ==
  /\ events # <<>>
  /\ Head(events) = "unlink"
  /\ events' = Tail(events)
  /\ components' = MapDelete(components, Watched)
  /\ styles' = MapDelete(styles, Watched)
  /\ trail' = Append(trail, Op("unlink", <<>>, NullDef))
  /\ UNCHANGED <<files, loaderVars, mpc, served, appVars>>

\* a request resolves the component of the watched file:
\* ComponentLoader.loadExportedComponent(name)
Resolve ==
  /\ mpc = "ready"
  /\ RoomFor(1)
  /\ \E name \in {Capitalize(Watched)} :
       \E component \in {LoadExportedResult(exportedComponents, files, name)} :
         /\ exportedComponents' = CacheLoaded(exportedComponents, name, component)
         /\ trail' = Append(trail, Op("resolve", <<>>, component))
  /\ UNCHANGED <<files, loaderComponents, pc, html, result, lastIndex,
                 componentStyles, calls, turns, elems, round, out1, components,
                 styles, events, mpc, served, appVars>>

NextWatch ==
  \/ ServerInit
  \/ FsWrite
  \/ FsDelete
  \/ HandleAdd
  \/ HandleChange
  \/ HandleUnlink
  \/ Resolve

SpecWatch == Init /\ [][NextWatch]_vars

---------------------------------------------------------------------------
(* ComponentManager.processHtml: the styles link, then the tags of every   *)
(* registered component in the iteration order of this.components          *)

\* 'href="/elysium/styles.css"'
LinkHref ==
  <<"h","r","e","f","=","\"","/","e","l","y","s","i","u","m","/","s","t","y",
  "l","e","s",".","c","s","s","\"">>
\* 'src="/public/htmx.min.js"'
ScriptSrc ==
  <<"s","r","c","=","\"","/","p","u","b","l","i","c","/","h","t","m","x",".",
  "m","i","n",".","j","s","\"">>
\* '  <script src="/public/htmx.min.js"></script>\n</head>'
ScriptTag ==
  <<" "," ","<","s","c","r","i","p","t"," ","s","r","c","=","\"","/","p","u",
  "b","l","i","c","/","h","t","m","x",".","m","i","n",".","j","s","\"",">",
  "<","/","s","c","r","i","p","t",">","\n","<","/","h","e","a","d",">">>
\* '  <link rel="stylesheet" href="/elysium/styles.css">\n</head>'
LinkTag ==
  <<" "," ","<","l","i","n","k"," ","r","e","l","=","\"","s","t","y","l","e",
  "s","h","e","e","t","\""," ","h","r","e","f","=","\"","/","e","l","y","s",
  "i","u","m","/","s","t","y","l","e","s",".","c","s","s","\"",">","\n","<",
  "/","h","e","a","d",">">>
\* '\n\n'
NLNL == <<"\n","\n">>

\* if (!html.includes('src="/public/htmx.min.js"')) html = html.replace(...)
InjectScript(h) ==
  IF ~Includes(h, ScriptSrc) THEN ReplaceFirst(h, HeadClose, ScriptTag) ELSE h
\* injectStylesLink(html)
InjectStylesLink(h) ==
  IF Includes(h, LinkHref) THEN h
  ELSE Pick({ReplaceFirst(s, HeadClose, LinkTag) : s \in {InjectScript(h)}})

NoTagMatch == [found |-> FALSE, index |-> 0, stop |-> 0, propsStr |-> <<>>,
               children |-> <<>>]
\* tagRegex matched at position i, the name ending at e, the first ">" at g
\* and the first closing tag behind it at c (0: there is none):
\* new RegExp(`<${name}([^>]*)(?:>(.*?)<\/${name}>|\\s*\\/?>)`, 'gs')
\* [^>]* is greedy and runs up to g; with a closing tag anywhere behind, the
\* first alternative takes the text up to it as children, otherwise the
\* second alternative ends the match at g.
TagMatchOf(s, i, e, g, c, name) ==
  IF g = 0 THEN NoTagMatch
  ELSE IF c # 0
    THEN [found |-> TRUE, index |-> i, stop |-> c + Len(name) + 2,
          propsStr |-> Slice(s, e + 1, g - 1),
          children |-> Slice(s, g + 1, c - 1)]
  ELSE [found |-> TRUE, index |-> i, stop |-> g,
        propsStr |-> Slice(s, e + 1, g - 1), children |-> <<>>]
TagMatchTo(s, i, e, g, name) ==
  Pick({TagMatchOf(s, i, e, g, c, name) :
          c \in {IF g = 0 THEN 0 ELSE ClosesAt(s, name, g + 1)}})
TagMatchAt(s, i, name) ==
  IF ~StartsWithAt(s, i, <<"<">> \o name) THEN NoTagMatch
  ELSE Pick({TagMatchTo(s, i, e, g, name) :
               e \in {i + Len(name)},
               g \in {FirstIn(s, {">"}, i + Len(name) + 1)}})

\* the callback of replaceComponentTags: parseProps, children, render
ManagerProps(m) ==
  Pick({IF kids # <<>> THEN Put(props, children, StringValue(kids)) ELSE props :
          props \in {ParseProps(m.propsStr)}, kids \in {Trim(m.children)}})
\* component.render(props) raises: the render function throws, or render is
\* not a function
ManagerRenderThrows(component) == component.render \in {"throws", "none"}

\* html.replace(tagRegex, callback) from position `from` on
RECURSIVE ReplaceTagsFrom(_, _, _, _)
ReplaceTagsMatch(s, from, name, component, m) ==
  Slice(s, from, m.index - 1) \o Render(component, ManagerProps(m))
    \o ReplaceTagsFrom(s, m.stop + 1, name, component)
ReplaceTagsAt(s, from, name, component, i) ==
  IF i = 0 THEN Slice(s, from, Len(s))
  ELSE Pick({ReplaceTagsMatch(s, from, name, component, m) :
               m \in {TagMatchAt(s, i, name)}})
ReplaceTagsFrom(s, from, name, component) ==
  Pick({ReplaceTagsAt(s, f, name, component, i) :
          f \in {from},
          i \in {First({j \in from..Len(s) : TagMatchAt(s, j, name).found})}})
\* the callback is called at least once
HasTag(s, name) == \E j \in 1..Len(s) : TagMatchAt(s, j, name).found

Processed(text) == [threw |-> FALSE, text |-> text]
Threw == [threw |-> TRUE, text |-> <<>>]
\* replaceComponentTags(html, componentName, component)
ReplaceComponentTags(h, name, component) ==
  IF HasTag(h, name) /\ ManagerRenderThrows(component) THEN Threw
  ELSE Processed(ReplaceTagsFrom(h, 1, name, component))

\* the loop of processHtml over this.components.entries(), from the k-th on
RECURSIVE ProcessFrom(_, _, _, _)
ProcessNext(r, order, k, comps) ==
  IF r.threw THEN r ELSE ProcessFrom(r.text, order, k + 1, comps)
ProcessFrom(h, order, k, comps) ==
  IF k > Len(order) THEN Processed(h)
  ELSE Pick({ProcessNext(r, order, n, comps) :
               n \in {k},
               r \in {ReplaceComponentTags(h, order[k], comps[order[k]])}})
\* processHtml(html), the components iterated in the given order
ProcessHtml(h, order, comps) ==
  Pick({ProcessFrom(linked, order, 1, comps) : linked \in {InjectStylesLink(h)}})

\* getAllStyles(), the styles iterated in the given order
GetAllStyles(order, sty) ==
  Join([k \in 1..Len(order) |-> sty[order[k]]], NLNL)

\* orders in which a Map with the keys S can iterate: keys iterate in
\* insertion order, which is the order in which glob listed the files.  One
\* order and its reverse: any two keys come in either order.
Reverse(sq) == [k \in 1..Len(sq) |-> sq[Len(sq) + 1 - k]]
Orders(S) == Pick({{sq, Reverse(sq)} : sq \in {SeqOf(S)}})
---------------------------------------------------------------------------
(* ElysiumJS: the html() helper of a route handler                         *)

\* '<html><head><script src="/public/htmx.min.js"></script></head><body>'
PrefixScript ==
  <<"<","h","t","m","l",">","<","h","e","a","d",">","<","s","c","r","i","p",
  "t"," ","s","r","c","=","\"","/","p","u","b","l","i","c","/","h","t","m",
  "x",".","m","i","n",".","j","s","\"",">","<","/","s","c","r","i","p","t",
  ">","<","/","h","e","a","d",">","<","b","o","d","y",">">>
\* '<html><head><link href="/elysium/styles.css"></head><body>'
PrefixLinked ==
  <<"<","h","t","m","l",">","<","h","e","a","d",">","<","l","i","n","k"," ",
  "h","r","e","f","=","\"","/","e","l","y","s","i","u","m","/","s","t","y",
  "l","e","s",".","c","s","s","\"",">","<","/","h","e","a","d",">","<","b",
  "o","d","y",">">>
ServePrefixes == {PrefixHead, PrefixNoHead, PrefixScript, PrefixLinked}
\* the number of elements of the body of a page handed to html()
MaxServeTags == 1
\* 'CardList'
CardList == Card \o <<"L","i","s","t">>
\* <CardList/>
CardListSelf == Element("self", CardList, <<>>, <<>>)
\* <CardList title="abc">hi</CardList>
CardListOpen == Element("open", CardList, <<Attr(title, "dq", abc)>>, hi)
ServeElements == Elements \cup {CardListSelf, CardListOpen}
ServeBodies == UNION {[1..n -> ServeElements] : n \in 0..MaxServeTags}

\* the response html(content) is building, or the error it raised
Serving(r, page, body, n, first) ==
  [state |-> IF r.threw THEN "thrown" ELSE "done", html |-> page,
   result |-> r.text, round |-> n, out1 |-> first, elems |-> body]

\* a route handler calls html(content): componentManager.processHtml(content)
ServeStart ==
  /\ mpc = "ready"
  /\ served.state = "idle"
  /\ \E prefix \in ServePrefixes, body \in ServeBodies,
        order \in Orders(DOMAIN components) :
       \E page \in {PageText(prefix, body)} :
         \E r \in {ProcessHtml(page, order, components)} :
           served' = Serving(r, page, body, 1, <<>>)
  /\ UNCHANGED <<files, loaderVars, managerVars, appVars>>

\* the handler hands what processHtml returned to html() again
ServeAgain ==
  /\ served.state = "done"
  /\ served.round = 1
  /\ \E order \in Orders(DOMAIN components) :
       \E r \in {ProcessHtml(served.result, order, components)} :
         served' = Serving(r, served.result, served.elems, 2, served.result)
  /\ UNCHANGED <<files, loaderVars, managerVars, appVars>>

\* the response is sent, or the error handler answered
ServeReturn ==
  /\ served.state \in {"done", "thrown"}
  /\ served' = NotServing
  /\ UNCHANGED <<files, loaderVars, managerVars, appVars>>

NextServe == ServerInit \/ ServeStart \/ ServeAgain \/ ServeReturn

SpecServe == Init /\ [][NextServe]_vars

---------------------------------------------------------------------------
(* Two concurrent calls of loadExportedComponent for one component.  The    *)
(* function is async: it runs up to its first await in one piece, and its  *)
(* awaits (writeFile, import) let the other call run in between.  writeFile *)
(* opens the file with flag 'w', which truncates it, and writes the data in *)
(* a later step of the thread pool.                                        *)

\* the clock advances by this much at most during a run
MaxNow == 1

Loading(i, p, content, component, ret) ==
  [loads EXCEPT ![i] = [pc |-> p, miss |-> TRUE, content |-> content,
                        component |-> component, ret |-> ret]]

\* lines 56-83: cache check, existsSync, readFileSync, transform
LoadCall(i) ==
  /\ loads[i].pc = "idle"
  /\ IF Has(exportedComponents, RacedName)
     THEN loads' = [loads EXCEPT ![i].pc = "returned",
                                 ![i].ret = exportedComponents[RacedName]]
     ELSE \E file \in {FileAt(files, ToLowerCase(RacedName))} :
            IF ~file.exists
            THEN loads' = Loading(i, "returned", <<>>, NullDef, NullDef)
            ELSE loads' = Loading(i, "open", file.content, NullDef, NullDef)
  /\ UNCHANGED <<files, loaderVars, managerVars, served, storeVars, pluginVars, tempFile,
                 moduleCache, now>>

\* await writeFile(tempFilePath, ...): the file is opened and truncated
LoadOpen(i) ==
  /\ loads[i].pc = "open"
  /\ tempFile' = File(<<>>)
  /\ loads' = [loads EXCEPT ![i].pc = "write"]
  /\ UNCHANGED <<files, loaderVars, managerVars, served, storeVars, pluginVars, moduleCache, now>>

\* await writeFile(tempFilePath, ...): the data is written.  The model keeps
\* in tempFile the source text whose transformation the file holds.
LoadWrite(i) ==
  /\ loads[i].pc = "write"
  /\ tempFile' = File(loads[i].content)
  /\ loads' = [loads EXCEPT ![i].pc = "import"]
  /\ UNCHANGED <<files, loaderVars, managerVars, served, storeVars, pluginVars, moduleCache, now>>

\* await import(fileUrl + '?update=' + Date.now()): the module of a URL is
\* evaluated once, from the file as it is then; module[componentName]
LoadImport(i) ==
  /\ loads[i].pc = "import"
  /\ \E module \in {IF Has(moduleCache, now) THEN moduleCache[now]
                    ELSE LoaderImport(tempFile.content, RacedName)} :
       /\ moduleCache' = MapSet(moduleCache, now, module)
       /\ loads' = [loads EXCEPT ![i].pc = "check", ![i].component = module]
  /\ UNCHANGED <<files, loaderVars, managerVars, served, storeVars, pluginVars, tempFile, now>>

\* lines 97-105: the render check, exportedComponents.set, return
LoadCheck(i) ==
  /\ loads[i].pc = "check"
  /\ \E component \in {Callable(loads[i].component)} :
       /\ loads' = [loads EXCEPT ![i].pc = "returned", ![i].ret = component]
       /\ exportedComponents' =
            IF component.ok
            THEN MapSet(exportedComponents, RacedName, component)
            ELSE exportedComponents
  /\ UNCHANGED <<files, loaderComponents, pc, html, result, lastIndex,
                 componentStyles, calls, turns, elems, round, out1,
                 managerVars, served, storeVars, pluginVars, tempFile, moduleCache, now>>

\* a millisecond passes
Tick ==
  /\ now < MaxNow
  /\ now' = now + 1
  /\ UNCHANGED <<files, loaderVars, managerVars, served, storeVars, pluginVars, tempFile,
                 moduleCache, loads>>

NextRace ==
  \/ \E i \in Calls : LoadCall(i)
  \/ \E i \in Calls : LoadOpen(i)
  \/ \E i \in Calls : LoadWrite(i)
  \/ \E i \in Calls : LoadImport(i)
  \/ \E i \in Calls : LoadCheck(i)
  \/ Tick

SpecRace == Init /\ [][NextRace]_vars

---------------------------------------------------------------------------
(* PluginManager.register / executeHook and ElysiumJS.init                 *)

\* this.hooks after the loop over Object.entries(plugin.hooks), from the
\* k-th entry on: if (this.hooks[hookName] && hookFn) push
RECURSIVE PushHooks(_, _, _)
PushHooks(collection, pluginHooks, k) ==
  IF k > Len(pluginHooks) THEN collection
  ELSE IF pluginHooks[k].hookName \in DOMAIN collection
  THEN PushHooks([collection EXCEPT ![pluginHooks[k].hookName] =
                    Append(@, pluginHooks[k])], pluginHooks, k + 1)
  ELSE PushHooks(collection, pluginHooks, k + 1)

\* a register that lets the failure of plugin.init pass
InitOutcomeSwallowed(plugin) == "returned"
\* how register(name, plugin) ends once the plugin is stored: the try/catch
\* around plugin.init
InitOutcome(plugin) ==
  IF plugin.init = "throws" THEN "PLUGIN_INIT_ERROR" ELSE "returned"

\* a register without the test for the name
AlreadyRegisteredNever(name) == FALSE
\* if (this.plugins.has(name)) throw PLUGIN_ALREADY_REGISTERED
AlreadyRegistered(name) == Has(plugins, name)

RegisterCall(name, plugin, outcome, initRan) ==
  [name |-> name, plugin |-> plugin, outcome |-> outcome,
   initRan |-> initRan, initBefore |-> initAt.state,
   pluginsBefore |-> plugins, hooksBefore |-> hooks]

\* PluginManager.register(name, plugin, options)
Register ==
  /\ \E name \in PluginNames, plugin \in PluginDefinitions,
        options \in PluginOptions :
       IF AlreadyRegistered(name)
       THEN /\ registered' =
                 RegisterCall(name, plugin, "PLUGIN_ALREADY_REGISTERED", FALSE)
            /\ UNCHANGED <<plugins, hooks>>
       ELSE /\ plugins' =
                 MapSet(plugins, name, [plugin |-> plugin, options |-> options])
            /\ hooks' = PushHooks(hooks, plugin.hooks, 1)
            /\ registered' = RegisterCall(name, plugin, InitOutcome(plugin),
                                          plugin.init # "none")
  /\ UNCHANGED <<files, loaderVars, managerVars, served, storeVars, raceVars, initAt,
                 lifecycle>>

\* an init that scans the routes before the components
InitStepsRoutesFirst ==
  <<"beforeInit", "beforeRouteRegistration", "scanRoutes",
    "afterRouteRegistration", "beforeComponentRegistration", "scanComponents",
    "afterComponentRegistration", "afterInit">>
\* the steps of init that the hooks surround, in the order of the awaits of
\* init; setupDefaultMiddleware, setupStaticFiles and setupDefaultRoutes, which
\* run between them, touch nothing of the model
InitSteps ==
  <<"beforeInit", "beforeComponentRegistration", "scanComponents",
    "afterComponentRegistration", "beforeRouteRegistration", "scanRoutes",
    "afterRouteRegistration", "afterInit">>

Event(step, what, hook) == [step |-> step, what |-> what, hook |-> hook]
NoHook == Hook("", "", FALSE)

\* the current step of init returned: the next one begins, or init returns
Proceed ==
  /\ initAt' = IF initAt.step = Len(InitSteps)
               THEN [state |-> "returned", step |-> 0, hook |-> 0]
               ELSE [state |-> "running", step |-> initAt.step + 1, hook |-> 1]
  /\ lifecycle' =
       lifecycle \o <<Event(InitSteps[initAt.step], "end", NoHook)>>
         \o (IF initAt.step = Len(InitSteps) THEN <<>>
             ELSE <<Event(InitSteps[initAt.step + 1], "begin", NoHook)>>)

\* ElysiumJS.init is called
InitCall ==
  /\ initAt.state = "idle"
  /\ initAt' = [state |-> "running", step |-> 1, hook |-> 1]
  /\ lifecycle' = <<Event(InitSteps[1], "begin", NoHook)>>
  /\ UNCHANGED <<files, loaderVars, managerVars, served, storeVars, raceVars, plugins,
                 hooks, registered>>

\* executeHook: one turn of `for (const hook of this.hooks[hookName])
\* await hook(...)`; a hook that throws ends init in its catch, which rethrows
ExecuteHook ==
  /\ initAt.state = "running"
  /\ InitSteps[initAt.step] \in HookNames
  /\ initAt.hook <= Len(hooks[InitSteps[initAt.step]])
  /\ \E hook \in {hooks[InitSteps[initAt.step]][initAt.hook]} :
       IF hook.throws
       THEN /\ initAt' = [initAt EXCEPT !.state = "rejected"]
            /\ lifecycle' =
                 Append(lifecycle, Event(InitSteps[initAt.step], "throw", hook))
       ELSE /\ initAt' = [initAt EXCEPT !.hook = @ + 1]
            /\ lifecycle' =
                 Append(lifecycle, Event(InitSteps[initAt.step], "hook", hook))
  /\ UNCHANGED <<files, loaderVars, managerVars, served, storeVars, raceVars, plugins,
                 hooks, registered>>

\* executeHook: the loop is over and the call returns
ExecuteHookReturn ==
  /\ initAt.state = "running"
  /\ InitSteps[initAt.step] \in HookNames
  /\ initAt.hook > Len(hooks[InitSteps[initAt.step]])
  /\ Proceed
  /\ UNCHANGED <<files, loaderVars, managerVars, served, storeVars, raceVars, plugins,
                 hooks, registered>>

\* await this.componentManager.scanComponents()
InitScanComponents ==
  /\ initAt.state = "running"
  /\ InitSteps[initAt.step] = "scanComponents"
  /\ \E fsq \in {SeqOf(ExistingFiles(files))} :
       \E maps \in {ManagerScan(fsq, 1, [components |-> components,
                                         styles |-> styles], files)} :
         /\ components' = maps.components
         /\ styles' = maps.styles
  /\ Proceed
  /\ UNCHANGED <<files, loaderVars, events, trail, mpc, served, storeVars, raceVars,
                 plugins, hooks, registered>>

\* await this.router.scanRoutes(): it catches what goes wrong in it
InitScanRoutes ==
  /\ initAt.state = "running"
  /\ InitSteps[initAt.step] = "scanRoutes"
  /\ Proceed
  /\ UNCHANGED <<files, loaderVars, managerVars, served, storeVars, raceVars, plugins,
                 hooks, registered>>

NextPlugin ==
  \/ Register
  \/ InitCall
  \/ ExecuteHook
  \/ ExecuteHookReturn
  \/ InitScanComponents
  \/ InitScanRoutes

SpecPlugin == Init /\ [][NextPlugin]_vars

---------------------------------------------------------------------------
(* Store (an EventEmitter): setState, subscribe, subscribeToKey and the     *)
(* unsubscribe functions they return.  A listener returns normally and      *)
(* calls nothing of the store.                                             *)

\* the listener functions of a run and the values written
Listeners == {"f", "g"}
Values == {"1"}
\* the numbers of subscribe / unsubscribe calls and of setState calls of a run
MaxSubs == 3
MaxSets == 2

\* an update object in the order of its own keys: <<>>, {a}, {b}, {a, b},
\* {b, a} with every choice of values
Entry(key, value) == [key |-> key, value |-> value]
Updates ==
  {<<>>}
    \cup {<<Entry(key, value)>> : key \in Keys, value \in Values}
    \cup {update \in {<<Entry(k1, v1), Entry(k2, v2)>> :
                          k1 \in Keys, k2 \in Keys, v1 \in Values,
                          v2 \in Values} : update[1].key # update[2].key}
OwnKeys(update) == {update[k].key : k \in 1..Len(update)}
ValueOf(update, key) ==
  update[CHOOSE k \in 1..Len(update) : update[k].key = key].value

\* a setState that replaces the state by the update
MergeReplace(st, update) ==
  [key \in Keys |-> IF key \in OwnKeys(update) THEN ValueOf(update, key)
                    ELSE Undefined]
\* { ...this.state, ...update }
Merge(st, update) ==
  [key \in Keys |-> IF key \in OwnKeys(update) THEN ValueOf(update, key)
                    ELSE st[key]]

\* an unsubscribe that removes one subscription of the listener, the first
RECURSIVE WithoutFirst(_, _)
WithoutFirst(list, listener) ==
  IF list = <<>> THEN <<>>
  ELSE IF Head(list) = listener THEN Tail(list)
  ELSE <<Head(list)>> \o WithoutFirst(Tail(list), listener)
\* this.events[event].filter(l => l !== listener)
RECURSIVE Without(_, _)
Without(list, listener) ==
  IF list = <<>> THEN <<>>
  ELSE IF Head(list) = listener THEN Without(Tail(list), listener)
  ELSE <<Head(list)>> \o Without(Tail(list), listener)

Emitted(event, old, new) == [event |-> event, old |-> old, new |-> new]
\* the emit calls of setState(update): 'change', then one per own key
EmitCalls(old, new, update) ==
  <<Emitted(ChangeEvent, old, new)>>
    \o [k \in 1..Len(update) |->
          Emitted(KeyEvent(update[k].key), old[update[k].key],
                  new[update[k].key])]
\* emit(event, data): this.events[event].forEach(listener => listener(data))
Invocations(emitted) ==
  [k \in 1..Len(emitterEvents[emitted.event]) |->
     [event |-> emitted.event, listener |-> emitterEvents[emitted.event][k],
      old |-> emitted.old, new |-> emitted.new]]
RECURSIVE InvokedFrom(_, _)
InvokedFrom(emits, k) ==
  IF k > Len(emits) THEN <<>>
  ELSE Invocations(emits[k]) \o InvokedFrom(emits, k + 1)

SubCall(op, event, listener) == [op |-> op, event |-> event, listener |-> listener]

\* subscribe(listener) / subscribeToKey(key, listener): this.on(event, listener)
Subscribe ==
  /\ Len(subs) < MaxSubs
  /\ \E event \in EventNames, listener \in Listeners :
       /\ emitterEvents' =
            [emitterEvents EXCEPT ![event] = Append(@, listener)]
       /\ subs' = Append(subs, SubCall("on", event, listener))
  /\ UNCHANGED <<files, loaderVars, managerVars, served, raceVars, pluginVars,
                 state, lastSet>>

\* a call of the function that on(event, listener) returned
Unsubscribe ==
  /\ Len(subs) < MaxSubs
  /\ \E k \in 1..Len(subs) :
       /\ subs[k].op = "on"
       /\ emitterEvents' =
            [emitterEvents EXCEPT ![subs[k].event] =
               Without(@, subs[k].listener)]
       /\ subs' = Append(subs, SubCall("off", subs[k].event, subs[k].listener))
  /\ UNCHANGED <<files, loaderVars, managerVars, served, raceVars, pluginVars,
                 state, lastSet>>

\* Store.setState(update)
SetState ==
  /\ lastSet.n < MaxSets
  /\ \E update \in Updates :
       \E new \in {Merge(state, update)} :
         \E emits \in {EmitCalls(state, new, update)} :
           /\ state' = new
           /\ lastSet' = [n |-> lastSet.n + 1, at |-> Len(subs),
                          before |-> state, update |-> update,
                          emitted |-> emits,
                          invoked |-> InvokedFrom(emits, 1)]
  /\ UNCHANGED <<files, loaderVars, managerVars, served, raceVars, pluginVars,
                 emitterEvents, subs>>

NextStore == Subscribe \/ Unsubscribe \/ SetState

SpecStore == Init /\ [][NextStore]_vars
---------------------------------------------------------------------------
(* Properties of ComponentLoader.mount.  A mount has returned when         *)
(* pc = "done"; it has rejected when pc = "thrown".                        *)

\* '<!--'
CommentOpen == <<"<","!","-","-">>
\* '-->'
CommentClose == <<"-","-",">">>

\* what a resolve of name gives in the current state
Definition(name) == LoadExportedResult(exportedComponents, files, name)
Resolves(name) == Definition(name).ok
\* the positions of the page's elements that are tags of the component
TagsNamed(body, name) ==
  {k \in 1..Len(body) : IsTag(body[k]) /\ body[k].name = name}
\* the component names that have styles
Styled == {name \in DOMAIN exportedComponents :
             exportedComponents[name].styles # <<>>}
\* the text holds no "<" followed by a capital letter
NoCapitalizedTag(text) == \A i \in 1..Len(text) : ~IsTagStart(text, i)

C2_StyleBlockIdempotent ==
  (pc = "done" /\ round = 2) =>
    /\ Occurrences(result, StyleOpen) = Occurrences(out1, StyleOpen)
    /\ \A name \in Styled :
         Occurrences(result, exportedComponents[name].styles)
           = Occurrences(out1, exportedComponents[name].styles)
\* the second mount of a page added a second style block
C2_SecondBlock ==
  /\ pc = "done"
  /\ round = 2
  /\ Occurrences(out1, StyleOpen) = 1
  /\ Occurrences(result, StyleOpen) = 2

\* C3: when mount has returned, no tag of the page whose name resolves is
\* left in the document, and render was called once for each of them.
C3_EveryResolvableTagRendered ==
  (pc = "done" /\ round = 1) =>
    /\ \A k \in 1..Len(elems) :
         (IsTag(elems[k]) /\ Resolves(elems[k].name))
           => ~Includes(result, Serialize(elems[k]))
    /\ Len(calls) = Cardinality({k \in 1..Len(elems) :
                                   IsTag(elems[k]) /\ Resolves(elems[k].name)})
\* mount returned with a resolvable <Card/> still in the document, behind a
\* tag whose render result is shorter than the tag
C3_TagSkipped ==
  /\ pc = "done"
  /\ round = 1
  /\ elems = <<CardTitled, CardSelf>>
  /\ Resolves(Card)
  /\ Len(calls) = 1
  /\ Includes(result, Serialize(CardSelf))

\* C4: when mount has returned, a tag of the page whose name does not
\* resolve is still in the document and an HTML comment stands right behind
\* or right before it.
C4_UnresolvedTagMarked ==
  (pc = "done" /\ round = 1) =>
    \A k \in 1..Len(elems) :
      (IsTag(elems[k]) /\ ~Resolves(elems[k].name)) =>
        \E i \in 1..Len(result) :
          /\ StartsWithAt(result, i, Serialize(elems[k]))
          /\ \/ StartsWithAt(result, i + Len(Serialize(elems[k])), CommentOpen)
             \/ StartsWithAt(result, i - Len(CommentClose), CommentClose)
\* mount returned the page of <Missing foo="1" /> with no comment in it
C4_NoMarker ==
  /\ pc = "done"
  /\ round = 1
  /\ elems = <<MissingTag>>
  /\ Includes(result, Serialize(MissingTag))
  /\ ~Includes(result, CommentOpen)

\* C5: a mount of a page with a tag whose render raises does not reject, and
\* when it has returned that tag is no longer in the document.
C5_RenderFailureConfined ==
  \A k \in 1..Len(elems) :
    (IsTag(elems[k]) /\ Resolves(elems[k].name)
       /\ RenderThrows(Definition(elems[k].name)))
      => /\ pc # "thrown"
         /\ (pc = "done" /\ round = 1) => ~Includes(result, Serialize(elems[k]))
\* the mount of <Boom/><Card/> rejected at the first tag, the second unrendered
C5_MountRejected ==
  /\ pc = "thrown"
  /\ elems = <<BoomSelf, CardSelf>>
  /\ Len(calls) = 1
  /\ calls[1].name = Boom

\* the document is the page with at most one insertion, which holds the
\* head section, and no insertion when the page has a head
UnchangedButHead(page, doc) ==
  IF Includes(page, HeadOpen) THEN doc = page
  ELSE \E i \in 0..Len(page) :
         /\ Len(doc) >= Len(page)
         /\ Slice(doc, 1, i) = Slice(page, 1, i)
         /\ Slice(doc, i + 1 + (Len(doc) - Len(page)), Len(doc))
              = Slice(page, i + 1, Len(page))
         /\ Includes(Slice(doc, i + 1, i + (Len(doc) - Len(page))), HeadOpen)
         /\ Includes(Slice(doc, i + 1, i + (Len(doc) - Len(page))), HeadClose)
AttrValueOf(e, name) ==
  e.attrs[Last({i \in 1..Len(e.attrs) : e.attrs[i].name = name})].value
\* the PropsMap of an element in open/children/close form with quoted
\* attributes: each attribute's quoted value, and the trimmed inner content
QuotedProps(e) ==
  [k \in {e.attrs[i].name : i \in 1..Len(e.attrs)} \cup {children} |->
     IF k = children THEN StringValue(Trim(e.inner))
     ELSE StringValue(AttrValueOf(e, k))]
QuotedOpen(e) ==
  /\ e.form = "open"
  /\ \A i \in 1..Len(e.attrs) : e.attrs[i].kind \in {"dq", "sq"}
\* C7: for a tag in open/children/close form with quoted attributes, render
\* receives exactly the attributes' quoted values and the trimmed children,
\* and parseProps gives the same attributes for the tag's attribute text.
C7_QuotedAttributes ==
  \A j \in 1..Len(calls) : \A e \in Elements :
    (QuotedOpen(e) /\ calls[j].fullMatch = Serialize(e)) =>
      /\ calls[j].props = QuotedProps(e)
      /\ Put(ParseProps(calls[j].attributesStr), children,
             StringValue(Trim(e.inner))) = QuotedProps(e)
\* the tag <Button size="">Go</Button> was rendered with size: true
C7_EmptyValueTrue ==
  /\ calls # <<>>
  /\ calls[Len(calls)].fullMatch = Serialize(ButtonEmpty)
  /\ calls[Len(calls)].props[size] = TrueValue
  /\ ParseProps(calls[Len(calls)].attributesStr)[size] = TrueValue

\* the element has an attribute with no value
HasBare(e) == \E i \in 1..Len(e.attrs) : e.attrs[i].kind = "bare"
\* C8: when mount has returned, each tag of the page that carries a bare
\* attribute and whose name resolves was rendered, with true under the
\* attribute's name.
C8_BareAttributeMounted ==
  (pc = "done" /\ round = 1) =>
    \A k \in 1..Len(elems) :
      (IsTag(elems[k]) /\ HasBare(elems[k]) /\ Resolves(elems[k].name)) =>
        /\ ~Includes(result, Serialize(elems[k]))
        /\ \E j \in 1..Len(calls) :
             /\ calls[j].fullMatch = Serialize(elems[k])
             /\ \A i \in 1..Len(elems[k].attrs) :
                  elems[k].attrs[i].kind = "bare" =>
                    /\ elems[k].attrs[i].name \in DOMAIN calls[j].props
                    /\ calls[j].props[elems[k].attrs[i].name] = TrueValue
\* mount returned with <Button disabled>Go</Button> unrendered
C8_BareTagLeft ==
  /\ pc = "done"
  /\ round = 1
  /\ elems = <<CardTitled, ButtonBare>>
  /\ Resolves(Button)
  /\ Includes(result, Serialize(ButtonBare))

\* C9: for the tag <Card data={not json}/>, render receives data as the
\* string "not json", parseProps gives the same for the tag's attribute text,
\* and the mount returns.
C9_MalformedObjectLiteral ==
  \A j \in 1..Len(calls) :
    calls[j].fullMatch = Serialize(CardJson) =>
      /\ calls[j].props = Put(NoProps, data, StringValue(notJson))
      /\ ParseProps(calls[j].attributesStr)
           = Put(NoProps, data, StringValue(notJson))
\* the tag was rendered with data: true and the words as further attributes,
\* where parseProps gives the text with its braces
C9_BracesKept ==
  /\ pc = "done"
  /\ elems = <<CardJson>>
  /\ Len(calls) = 1
  /\ calls[1].props[data] = TrueValue
  /\ DOMAIN calls[1].props = {data, <<"n","o","t">>, <<"j","s","o","n">>}
  /\ ParseProps(calls[1].attributesStr)[data]
       = StringValue(<<"{">> \o notJson \o <<"}">>)

---------------------------------------------------------------------------
(* Properties of the development server                                    *)

\* no edit of the watched file between the k-th and the l-th entry
NoEditBetween(k, l) ==
  \A m \in (k + 1)..(l - 1) : trail[m].op \notin {"write", "delete"}
\* the definition renders as what the source text defines does
Reflects(def, text) ==
  /\ def.ok = LoadFile(File(text), Capitalize(Watched)).ok
  /\ def.render = LoadFile(File(text), Capitalize(Watched)).render
\* C10: a resolve that follows the caching of a component, the handling of
\* the removal of its file and a rewrite of the file, in this order, returns
\* a definition that renders as the new source defines.
C10_FreshAfterInvalidation ==
  \A i, j, k, l \in 1..Len(trail) :
    (/\ i < j /\ j < k /\ k < l
     /\ trail[i].op = "resolve" /\ trail[i].def.ok
     /\ trail[j].op = "unlink"
     /\ trail[k].op = "write"
     /\ trail[l].op = "resolve"
     /\ NoEditBetween(k, l))
      => Reflects(trail[l].def, trail[k].text)
\* the resolve behind removal and rewrite returned the definition cached
\* before them, which is not what the file now defines
C10_StaleDefinition ==
  /\ Len(trail) = 5
  /\ trail[1].op = "resolve" /\ trail[1].def.ok
  /\ trail[2].op = "delete"
  /\ trail[3].op = "unlink"
  /\ trail[4].op = "write" /\ trail[4].text = SrcCard2
  /\ files[Watched] = File(SrcCard2)
  /\ trail[5].op = "resolve"
  /\ trail[5].def = trail[1].def
  /\ trail[5].def.render = "div"
  /\ ~Reflects(trail[5].def, SrcCard2)


---------------------------------------------------------------------------
(* Properties of the registry under file-system events                     *)

\* the name under which the component of the watched file is registered
WatchedName == Capitalize(Basename(Watched))
\* the handler of the latest event or request recorded
LastOp == IF trail = <<>> THEN "none" ELSE trail[Len(trail)].op
\* some order of getAllStyles() holds the text
StylesServed(text) ==
  \E order \in Orders(DOMAIN styles) :
    Includes(GetAllStyles(order, styles), text)
\* processHtml still renders the tag <Card/> of a page
StillRendered(e) ==
  \E order \in Orders(DOMAIN components) :
    \E r \in {ProcessHtml(PageText(PrefixHead, <<e>>), order, components)} :
      ~r.threw /\ ~Includes(r.text, Serialize(e))

\* C11: when the unlink handler has run for the file of a component, the
\* component's name is in neither the definition cache nor the styles cache,
\* getAllStyles() holds none of its styles and processHtml leaves its tag.
C11_UnlinkEvicts ==
  LastOp = "unlink" =>
    /\ ~Has(components, WatchedName)
    /\ ~Has(styles, WatchedName)
    /\ ~StylesServed(StylesCard1)
    /\ ~StylesServed(StylesCard2)
    /\ ~StillRendered(CardSelf)
\* the unlink handler ran for the deleted card.els and Card is still in both
\* caches, served by getAllStyles() and rendered by processHtml
C11_EntrySurvives ==
  /\ LastOp = "unlink"
  /\ ~files[Watched].exists
  /\ Has(components, WatchedName)
  /\ Has(styles, WatchedName)
  /\ StylesServed(styles[WatchedName])
  /\ StillRendered(CardSelf)

\* what loadComponent reads from the watched file now
WatchedParsed == ParseComponentFile(files[Watched])
\* C12: when the change handler has reloaded a component, the definition
\* cache maps its name to the definition the file now holds and the styles
\* cache maps it to that definition's styles, or has no entry for the name
\* when that definition has no styles.
C12_ReloadExact ==
  (LastOp = "change" /\ Storable(WatchedParsed)) =>
    /\ Has(components, WatchedParsed.name)
    /\ components[WatchedParsed.name] = WatchedParsed.component
    /\ IF WatchedParsed.component.styles # <<>>
       THEN /\ Has(styles, WatchedParsed.name)
            /\ styles[WatchedParsed.name] = WatchedParsed.component.styles
       ELSE ~Has(styles, WatchedParsed.name)
\* card.els was rewritten with a definition that has no styles, the change
\* handler reloaded it, and the styles of the old definition are still
\* cached and served
C12_OldStylesKept ==
  /\ LastOp = "change"
  /\ files[Watched] = File(SrcPlain)
  /\ components[WatchedName] = Def("p", <<>>)
  /\ Has(styles, WatchedName)
  /\ styles[WatchedName] = StylesCard1
  /\ StylesServed(StylesCard1)

\* the object the source text defines, NullDef when evaluating it throws
Defined(content) ==
  Evaluate(Trim(Slice(content, IndexOf(content, <<"=">>) + 1, Len(content))))
\* the file is absent, fails to evaluate or exports no callable render
Unusable(file) ==
  \/ ~file.exists
  \/ ~Defined(file.content).ok
  \/ Defined(file.content).render = "none"
\* the step is a resolve of the watched component
IsResolve == trail' # trail /\ trail'[Len(trail')].op = "resolve"
Resolved == trail'[Len(trail')].def
\* C13: a resolve always ends with a value, a definition or null: on a hit
\* it is the cached definition, and on a miss with the source file absent,
\* failing to evaluate or exporting no callable render it is null; in both
\* cases the cache is left as it was.
C13_ResolveNeverThrows ==
  [][IsResolve =>
       /\ Resolved.ok \/ Resolved = NullDef
       /\ Has(exportedComponents, WatchedName) =>
            /\ Resolved = exportedComponents[WatchedName]
            /\ UNCHANGED exportedComponents
       /\ (~Has(exportedComponents, WatchedName) /\ Unusable(files[Watched])) =>
            /\ Resolved = NullDef
            /\ UNCHANGED exportedComponents]_vars
\* a resolve of Card returned null for a card.els that fails to evaluate,
\* and cached nothing
C13_NullOnBrokenSource ==
  /\ LastOp = "resolve"
  /\ files[Watched] = File(SrcBroken)
  /\ trail[Len(trail)].def = NullDef
  /\ ~Has(exportedComponents, WatchedName)

---------------------------------------------------------------------------
(* Properties of the head section, the style block, legacy tags and preload *)

\* the opening root tag of a document, from '<html' to the first '>'
RootTag(doc) ==
  Pick({Slice(doc, i, FirstIn(doc, {">"}, i)) : i \in {IndexOf(doc, HtmlOpen)}})
\* the document holds the text at position i and, behind it and white space,
\* an opening head tag
HeadBehind(doc, text, i) ==
  /\ StartsWithAt(doc, i, text)
  /\ StartsWithAt(doc, FirstNotIn(doc, Space, i + Len(text)), HeadOpen)
\* C14: a mount of a page that has a root tag and no head section returns a
\* document that holds the page's opening root tag as it was written, with
\* the opening head tag right behind it, and a closing head tag.
C14_HeadAfterRootTag ==
  (pc = "done" /\ round = 1 /\ Includes(html, HtmlOpen)
     /\ ~Includes(html, HeadOpen)) =>
    /\ \E i \in 1..Len(result) : HeadBehind(result, RootTag(html), i)
    /\ Includes(result, HeadClose)
\* the page started with <html lang="en"> and the document mount returned
\* starts with <html>, the head section and then  lang="en">
C14_RootTagSplit ==
  /\ pc = "done"
  /\ round = 1
  /\ StartsWithAt(html, 1, PrefixLang)
  /\ StartsWithAt(result, 1, HeadSynth \o Slice(PrefixLang, 6, 16))
  /\ ~Includes(result, RootTag(html))

\* the element is written as a capitalized tag
IsNamedTag(e) == e.form \in {"self", "selfsp", "open", "lone"}
\* the positions of the body where a component that has styles occurs first
FirstStyled(body) ==
  {k \in 1..Len(body) :
     /\ IsNamedTag(body[k])
     /\ Definition(body[k].name).styles # <<>>
     /\ \A j \in 1..(k - 1) :
          ~(IsNamedTag(body[j]) /\ body[j].name = body[k].name)}
\* the n-th position of a set of positions
Nth(ks, n) == CHOOSE k \in ks : Cardinality({j \in ks : j <= k}) = n
\* the styles of the distinct styled components, in order of first occurrence
StylesInOrder(body) ==
  Pick({[n \in 1..Cardinality(ks) |-> Definition(body[Nth(ks, n)].name).styles]
          : ks \in {FirstStyled(body)}})
\* the style block mount is to insert for the page
ExpectedBlock(body) == StyleOpen \o Join(StylesInOrder(body), NL) \o StyleClose
\* C15: a mount of a page with at least one tag of a component that has
\* styles returns a document with exactly one style block, which holds the
\* styles of the distinct styled components joined in the order of their
\* first tags and stands right before the closing head tag.
C15_OneStyleBlockInOrder ==
  (pc = "done" /\ round = 1 /\ FirstStyled(elems) # {}) =>
    /\ Occurrences(result, StyleOpen) = 1
    /\ \E i \in 1..Len(result) :
         /\ StartsWithAt(result, i, ExpectedBlock(elems))
         /\ StartsWithAt(result,
                         FirstNotIn(result, Space, i + Len(ExpectedBlock(elems))),
                         HeadClose)
\* the page <Button ...>Go</Button><Card/> was mounted: one style block with
\* the styles of Button and then those of Card
C15_ButtonThenCard ==
  /\ pc = "done"
  /\ round = 1
  /\ elems = <<ButtonGo, CardSelf>>
  /\ Occurrences(result, StyleOpen) = 1
  /\ Includes(result, StyleOpen \o StylesButton \o NL \o StylesCard1
                        \o StyleClose \o NL \o HeadClose)

\* '<!-- Error loading component ' + src + ' -->'
ErrorComment(src) == LegacyErrOpen \o src \o LegacyErrClose
\* C16: once mount has replaced the legacy inclusion tags of a page, none of
\* them is left; for a path the raw-content cache has, the document holds
\* the cached content and no error comment for the path; for any other path
\* it holds the error comment naming the path.
C16_LegacyReplaced ==
  (pc \in {"loop", "done"} /\ round = 1) =>
    \A k \in 1..Len(elems) :
      elems[k].form = "legacy" =>
        /\ ~Includes(result, Serialize(elems[k]))
        /\ IF Has(loaderComponents, elems[k].name)
           THEN /\ Includes(result, loaderComponents[elems[k].name])
                /\ ~Includes(result, ErrorComment(elems[k].name))
           ELSE Includes(result, ErrorComment(elems[k].name))
\* the raw-content cache has components/empty.els, a file with no content,
\* and its inclusion tag was replaced by the error comment
C16_EmptyContentComment ==
  /\ pc = "done"
  /\ round = 1
  /\ elems = <<LegacyEmpty>>
  /\ Has(loaderComponents, PathOf(empty))
  /\ loaderComponents[PathOf(empty)] = <<>>
  /\ Includes(result, ErrorComment(PathOf(empty)))

\* the file defines a component with a render function under the name
\* obtained by capitalizing its base name
ValidSource(f) == LoadFile(files[f], Capitalize(Basename(f))).ok
\* C17: once scanComponents has run, every valid component file under the
\* root, at any depth, has a registry entry under its capitalized base name.
C17_PreloadRegistersAll ==
  pc # "init" =>
    \A f \in ExistingFiles(files) :
      ValidSource(f) => Has(exportedComponents, Capitalize(Basename(f)))
\* scanComponents ran, components/ui/badge.els is valid and Badge has no
\* entry, where Card of components/card.els has one
C17_NestedFileUnregistered ==
  /\ pc = "idle"
  /\ ValidSource(uiBadge)
  /\ ~Has(exportedComponents, Badge)
  /\ ValidSource(card)
  /\ Has(exportedComponents, Card)

\* the value an attribute is to give: its quoted text, true without a value
WrittenValue(a) ==
  IF a.kind = "bare" THEN TrueValue ELSE StringValue(a.value)
\* the props hold the written value of every attribute of the element
HoldsWritten(props, e) ==
  \A i \in 1..Len(e.attrs) :
    /\ e.attrs[i].name \in DOMAIN props
    /\ props[e.attrs[i].name] = WrittenValue(e.attrs[i])
\* the element's attributes are quoted or bare
QuotedOrBare(e) ==
  /\ IsNamedTag(e)
  /\ e.attrs # <<>>
  /\ \A i \in 1..Len(e.attrs) : e.attrs[i].kind \in {"dq", "sq", "bare"}
\* C19: for a tag whose attributes are written name="value", name='value'
\* or name, both attribute parsers store the quoted text as a string, an
\* empty one included, and true only for an attribute with no value.
C19_QuotedTextStored ==
  \A j \in 1..Len(calls) : \A e \in Elements :
    (QuotedOrBare(e) /\ calls[j].fullMatch = Serialize(e)) =>
      /\ HoldsWritten(calls[j].props, e)
      /\ HoldsWritten(ParseProps(calls[j].attributesStr), e)
\* <Button size='large'>Go</Button> was rendered with size: true and
\* large: true, where parseProps gives size: "large"
C19_SingleQuotedLost ==
  /\ calls # <<>>
  /\ calls[Len(calls)].fullMatch = Serialize(ButtonSq)
  /\ calls[Len(calls)].props[size] = TrueValue
  /\ large \in DOMAIN calls[Len(calls)].props
  /\ ParseProps(calls[Len(calls)].attributesStr)[size] = StringValue(large)

\* C20: every mount that has entered its substitution loop leaves it: it
\* returns, or rejects where a render call raises.
C20_MountReturns == (pc = "loop") ~> (pc # "loop")
\* the mount of the page <Loop/> has rendered Loop MaxRenders times, each time
\* for the tag of the text it inserted the turn before, the document growing;
\* a further turn ran and the next one matches again
C20_RendersWithoutEnd ==
  /\ pc = "loop"
  /\ round = 1
  /\ elems = <<LoopSelf>>
  /\ Len(calls) = MaxRenders
  /\ turns = 1
  /\ \A j \in 1..Len(calls) : calls[j].fullMatch = Serialize(LoopSelf)
  /\ Len(result) = Len(html) + MaxRenders * (Len(LoopText) - Len(Serialize(LoopSelf)))
  /\ Exec(result, lastIndex).found

---------------------------------------------------------------------------
(* Properties of ComponentManager.processHtml                              *)

\* C18: a document processHtml returns holds exactly one reference to the
\* shared stylesheet and exactly one to the shared client script, whether it
\* was given a page as written, a page that already references the script,
\* or its own output.
C18_OneLinkOneScript ==
  served.state = "done" =>
    /\ Occurrences(served.result, LinkHref) = 1
    /\ Occurrences(served.result, ScriptSrc) = 1
\* processHtml returned the page <html><body></body></html>, which has a
\* root tag and no head section, with no stylesheet link and no script
C18_NoHeadNoLink ==
  /\ served.state = "done"
  /\ served.round = 1
  /\ served.html = PageText(PrefixNoHead, <<>>)
  /\ served.result = served.html
  /\ Occurrences(served.result, LinkHref) = 0
  /\ Occurrences(served.result, ScriptSrc) = 0

\* the tags of the page handed to processHtml whose name is the name of no
\* registered component
ForeignTags ==
  {k \in 1..Len(served.elems) :
     /\ IsTag(served.elems[k])
     /\ ~Has(components, served.elems[k].name)}
\* C30: processHtml replaces the tags named exactly as a registered
\* component and no other: a tag whose name is the name of no registered
\* component is in the document it returns as it was written.
C30_OnlyExactName ==
  (served.state = "done" /\ served.round = 1) =>
    \A k \in ForeignTags : Includes(served.result, Serialize(served.elems[k]))
\* Card is registered, CardList is not, and processHtml returned the page
\* with <CardList/> without that tag
C30_CardListReplaced ==
  /\ served.state = "done"
  /\ served.round = 1
  /\ served.elems = <<CardListSelf>>
  /\ Has(components, Card)
  /\ ~Has(components, CardList)
  /\ ~Includes(served.result, Serialize(CardListSelf))

---------------------------------------------------------------------------
(* Properties of the scan position of the substitution loop                *)

\* the step is a loop turn that rendered a component and replaced its tag
IsReplacement ==
  /\ pc = "loop"
  /\ pc' = "loop"
  /\ Len(calls') = Len(calls) + 1
\* the last position of the replacement text in the document after the step
ReplacementEnd ==
  IndexOf(result, calls'[Len(calls')].fullMatch) - 1
    + Len(calls'[Len(calls')].fullMatch) + Len(result') - Len(result)
\* C21: after each replacement of the substitution loop the scan resumes
\* exactly at the end of the replacement text, so that the text a render call
\* produced is not scanned and no text behind it is skipped.
C21_ResumeAfterReplacement ==
  [][IsReplacement => lastIndex' = ReplacementEnd]_vars
\* the page held the one tag <Loop/>, and Loop was rendered a second time,
\* for the tag inside the text its first render call produced
C21_RenderOutputRendered ==
  /\ pc = "loop"
  /\ round = 1
  /\ elems = <<LoopSelf>>
  /\ Len(calls) = 2
  /\ calls[2].fullMatch = Serialize(LoopSelf)
  /\ Includes(result, <<"<","s","e","c","t","i","o","n",">">> \o LoopText)

---------------------------------------------------------------------------
(* Properties of concurrent resolutions                                    *)

\* both calls found no cache entry, and both have returned
BothMissedAndReturned ==
  \A i \in Calls : loads[i].miss /\ loads[i].pc = "returned"
\* the definition the source file of the component holds
RacedDefinition == LoadFile(files[Raced], RacedName)
\* C22: when two concurrent first-time resolutions of a component whose
\* source file holds a definition have both returned, each returned that
\* definition and the cache holds it under the component's name.
C22_RaceConverges ==
  (BothMissedAndReturned /\ RacedDefinition.ok) =>
    /\ \A i \in Calls : loads[i].ret = RacedDefinition
    /\ Has(exportedComponents, RacedName)
    /\ exportedComponents[RacedName] = RacedDefinition
\* both calls missed the cache for Button, whose file is valid; one imported
\* the temporary file while the other had truncated it and returned null,
\* the other returned the definition
C22_NullFromTruncatedFile ==
  /\ BothMissedAndReturned
  /\ RacedDefinition.ok
  /\ \E i, j \in Calls :
       /\ loads[i].ret = NullDef
       /\ loads[j].ret = RacedDefinition
  /\ exportedComponents[RacedName] = RacedDefinition

---------------------------------------------------------------------------
(* Properties of the props handed to render                                *)

\* the props of a render call without the children entry
AttributeProps(props) == [k \in DOMAIN props \ {children} |-> props[k]]
\* the props hold the trimmed inner content of the element as children, and
\* no children entry when the element has none
ChildrenOf(props, e) ==
  IF e.form = "open" /\ Trim(e.inner) # <<>>
  THEN /\ children \in DOMAIN props
       /\ props[children] = StringValue(Trim(e.inner))
  ELSE children \notin DOMAIN props
\* C23: the props mount hands to render for a tag are what parseProps gives
\* for the tag's attribute text, plus children when the tag has inner
\* content.
C23_PropsAreParsedProps ==
  \A j \in 1..Len(calls) :
    /\ AttributeProps(calls[j].props) = ParseProps(calls[j].attributesStr)
    /\ \A e \in Elements :
         calls[j].fullMatch = Serialize(e) => ChildrenOf(calls[j].props, e)
\* <Card data-id="abc"/> was rendered with data: true and id: "abc", where
\* parseProps gives 'data-id': "abc"
C23_HyphenatedNameSplit ==
  /\ calls # <<>>
  /\ calls[Len(calls)].fullMatch = Serialize(CardHyphen)
  /\ calls[Len(calls)].props = Put(Put(NoProps, data, TrueValue), idAttr,
                                   StringValue(abc))
  /\ ParseProps(calls[Len(calls)].attributesStr) =
       Put(NoProps, dataId, StringValue(abc))

---------------------------------------------------------------------------
(* Properties of the cached definitions                                    *)

\* the value is a definition whose render is a function
HasRender(component) == component.ok /\ component.render # "none"
\* C24: every definition held in ComponentLoader.exportedComponents and in
\* ComponentManager.components has a callable render.
C24_CachedIsCallable ==
  /\ \A name \in DOMAIN exportedComponents : HasRender(exportedComponents[name])
  /\ \A name \in DOMAIN components : HasRender(components[name])
\* card.els was rewritten to export an object without render; the manager
\* holds that object as Card, processHtml of <Card/> throws, and the loader
\* has not cached it
C24_RenderlessStored ==
  /\ files[Watched] = File(SrcNoRender)
  /\ Has(components, WatchedName)
  /\ components[WatchedName] = Def("none", <<>>)
  /\ ~Has(exportedComponents, WatchedName)
  /\ LoadFile(files[Watched], WatchedName) = NullDef
  /\ \E order \in Orders(DOMAIN components) :
       ProcessHtml(PageText(PrefixHead, <<CardSelf>>), order, components).threw

---------------------------------------------------------------------------
(* Properties of ElysiumJS.init and PluginManager                          *)

\* the lifecycle of init as documented
LifecycleOrder ==
  <<"beforeInit", "beforeComponentRegistration", "scanComponents",
    "afterComponentRegistration", "beforeRouteRegistration", "scanRoutes",
    "afterRouteRegistration", "afterInit">>
\* the place of a step in the lifecycle
Place(step) == CHOOSE n \in 1..Len(LifecycleOrder) : LifecycleOrder[n] = step
\* the k-th recorded event is in order: a step begins when init begins (the
\* first step) or right when the step before it has ended; hooks run, and a
\* step ends, inside the step that began last; a throw is the last event
InOrder(k) ==
  IF lifecycle[k].what = "begin"
  THEN IF k = 1 THEN lifecycle[k].step = LifecycleOrder[1]
       ELSE /\ lifecycle[k - 1].what = "end"
            /\ Place(lifecycle[k].step) = Place(lifecycle[k - 1].step) + 1
  ELSE /\ k > 1
       /\ lifecycle[k - 1].step = lifecycle[k].step
       /\ lifecycle[k - 1].what \in {"begin", "hook"}
       /\ lifecycle[k].what = "throw" =>
            (k = Len(lifecycle) /\ initAt.state = "rejected")
       /\ lifecycle[k].what \in {"hook", "throw"} =>
            lifecycle[k].hook.hookName = lifecycle[k].step
\* C25: the steps of init begin in the documented order, each after the one
\* before it has ended and with its hooks run inside it; init returns after
\* the last step, and when a hook throws init rejects and nothing runs after
\* that hook.
C25_LifecycleInOrder ==
  /\ \A k \in 1..Len(lifecycle) : InOrder(k)
  /\ initAt.state = "returned" =>
       /\ lifecycle[Len(lifecycle)].what = "end"
       /\ lifecycle[Len(lifecycle)].step = LifecycleOrder[Len(LifecycleOrder)]
  /\ initAt.state = "rejected" => lifecycle[Len(lifecycle)].what = "throw"
  /\ initAt.state = "running" =>
       lifecycle[Len(lifecycle)].what \in {"begin", "hook"}
\* init ran a beforeInit hook, scanned the components, and was rejected by
\* the beforeRouteRegistration hook that threw; no route scan was made
C25_RejectedBeforeRouteScan ==
  /\ initAt.state = "rejected"
  /\ lifecycle[Len(lifecycle)].what = "throw"
  /\ lifecycle[Len(lifecycle)].step = "beforeRouteRegistration"
  /\ \E k \in 1..Len(lifecycle) :
       lifecycle[k].what = "hook" /\ lifecycle[k].step = "beforeInit"
  /\ \E k \in 1..Len(lifecycle) :
       lifecycle[k].what = "end" /\ lifecycle[k].step = "scanComponents"
  /\ \A k \in 1..Len(lifecycle) : lifecycle[k].step # "scanRoutes"

\* the latest register call was made under a name that was registered
DuplicateCall ==
  registered.outcome # "none" /\ Has(registered.pluginsBefore, registered.name)
\* C26: a register call under a name that is already registered throws
\* PLUGIN_ALREADY_REGISTERED, leaves the plugin map and every hook list as
\* they were, and does not invoke the init of the plugin it was given.
C26_DuplicateChangesNothing ==
  DuplicateCall =>
    /\ registered.outcome = "PLUGIN_ALREADY_REGISTERED"
    /\ plugins = registered.pluginsBefore
    /\ hooks = registered.hooksBefore
    /\ ~registered.initRan
\* the logger was registered under a name, and a register of another plugin,
\* one with hooks and an init, under that name was refused: the logger and
\* its options are still stored
C26_SecondPluginRefused ==
  /\ DuplicateCall
  /\ registered.outcome = "PLUGIN_ALREADY_REGISTERED"
  /\ registered.plugin = PluginFaulty
  /\ plugins[registered.name] =
       [plugin |-> PluginLogger, options |-> "{ level: 1 }"]
  /\ hooks["afterInit"] = <<>>

\* the latest register call was made under a fresh name for a plugin whose
\* init throws
FailedInitCall ==
  /\ registered.outcome # "none"
  /\ ~Has(registered.pluginsBefore, registered.name)
  /\ registered.plugin.init = "throws"
\* the hooks of a plugin that the hook collection has a list for
ListedHooks(plugin) ==
  {plugin.hooks[k] : k \in {j \in 1..Len(plugin.hooks) :
                              plugin.hooks[j].hookName \in HookNames}}
\* the hook is in the list of its name
InList(hook) ==
  \E k \in 1..Len(hooks[hook.hookName]) : hooks[hook.hookName][k] = hook
\* init ran the hook
RanHook(hook) ==
  \E k \in 1..Len(lifecycle) :
    lifecycle[k].what = "hook" /\ lifecycle[k].hook = hook
\* the step registers again under the name of a register that failed in init
RegistersAgain ==
  /\ registered.outcome = "PLUGIN_INIT_ERROR"
  /\ registered' # registered
  /\ registered'.name = registered.name
\* C27: a register call whose plugin's init throws ends with
\* PLUGIN_INIT_ERROR and leaves the plugin registered: its name is in the
\* plugin map, its hooks are in the hook lists, an init that runs after it
\* runs them, and a later register under the name ends with
\* PLUGIN_ALREADY_REGISTERED.
C27_FailedInitStaysRegistered ==
  /\ [](FailedInitCall =>
          /\ registered.outcome = "PLUGIN_INIT_ERROR"
          /\ Has(plugins, registered.name)
          /\ plugins[registered.name].plugin = registered.plugin
          /\ \A hook \in ListedHooks(registered.plugin) : InList(hook)
          /\ (registered.initBefore = "idle" /\ initAt.state = "returned") =>
               \A hook \in ListedHooks(registered.plugin) : RanHook(hook))
  /\ [][RegistersAgain =>
          registered'.outcome = "PLUGIN_ALREADY_REGISTERED"]_vars
\* the register of the plugin whose init throws ended with
\* PLUGIN_INIT_ERROR, and the init that followed ran its beforeInit and
\* afterInit hooks and returned
C27_HooksOfFailedPluginRan ==
  /\ FailedInitCall
  /\ registered.outcome = "PLUGIN_INIT_ERROR"
  /\ registered.plugin = PluginFaulty
  /\ registered.initBefore = "idle"
  /\ initAt.state = "returned"
  /\ RanHook(Hook("faulty", "beforeInit", FALSE))
  /\ RanHook(Hook("faulty", "afterInit", FALSE))

---------------------------------------------------------------------------
(* Properties of the Store                                                 *)

\* the subscribe calls made before the latest setState whose listener was
\* not unsubscribed from the event between the call and that setState
Subscribed(event) ==
  {k \in 1..lastSet.at :
     /\ subs[k] = SubCall("on", event, subs[k].listener)
     /\ \A j \in (k + 1)..lastSet.at :
          subs[j] # SubCall("off", event, subs[k].listener)}
\* the calls of listeners the latest setState made for the event
InvokedFor(event) ==
  {k \in 1..Len(lastSet.invoked) : lastSet.invoked[k].event = event}
\* the listeners of a set of positions of a sequence of calls, in order
ListenersAt(sq, ks) ==
  [n \in 1..Cardinality(ks) |-> sq[Nth(ks, n)].listener]
\* for each event it emitted, the latest setState called the listeners that
\* were subscribed to the event and not unsubscribed from it, once per
\* subscribe call and in the order of the subscribe calls
CalledSubscribed ==
  \A k \in 1..Len(lastSet.emitted) :
    \E event \in {lastSet.emitted[k].event} :
      ListenersAt(lastSet.invoked, InvokedFor(event))
        = ListenersAt(subs, Subscribed(event))
\* the unsubscribe calls made before the latest setState whose listener was
\* subscribed to no event after them
Unsubscribed ==
  {k \in 1..lastSet.at :
     /\ subs[k].op = "off"
     /\ \A j \in (k + 1)..lastSet.at :
          ~(subs[j].op = "on" /\ subs[j].listener = subs[k].listener)}
KeyEmits(key) ==
  {k \in 1..Len(lastSet.emitted) : lastSet.emitted[k].event = KeyEvent(key)}
=============================================================================
